---- MODULE Spec2Model ----
(***************************************************************************)
(* A model of the demo-data generator of data_generator_scraped.py:       *)
(* the LLM-driven data generators and their fallbacks, the table-creation *)
(* procedure create_tables_in_snowflake, create_semantic_view and the     *)
(* semantic-element generators.                                            *)
(*                                                                         *)
(* External services (the LLM behind SNOWFLAKE.CORTEX.COMPLETE and the    *)
(* warehouse behind session.sql) are the environment: every outcome they  *)
(* can have (an exception, a response of any shape) is a nondeterministic *)
(* choice.  A value drawn by the random module whose result never decides *)
(* control flow is kept symbolic (Draw); a draw that decides whether an   *)
(* exception is raised is branched on.                                     *)
(***************************************************************************)
EXTENDS Integers, Sequences, FiniteSets, TLC

VARIABLES
    pc,                      \* position of the procedure under analysis
    num_records,             \* argument num_records
    join_key_values,         \* argument join_key_values (Optional list)
    llm,                     \* what the LLM step did in this call
    schema_data,             \* the schema handed to generate_data_from_schema
    text_samples,            \* the samples handed to generate_chunked_data_from_samples
    ret,                     \* the outcome of the call: a return or a raise
    \* create_tables_in_snowflake
    demo_data,               \* demo_data['tables'].items(): (table_key, table name)
    enable_search_service,
    enable_semantic_view,
    table1_entity_ids,
    table2_entity_ids,
    table_idx,               \* tables of demo_data the loop has gone through
    results,
    structured_tables_data,  \* dict, in insertion order
    unstructured_table_info, \* None (<<>>) or <<table_name>>
    calls,                   \* the calls made to the generators and the warehouse
    st_messages,             \* st.success / st.error messages of the procedure
    \* create_semantic_view: its locals
    table1_schema,
    table2_schema,
    semantic_elements,       \* (facts_sql, dimensions_sql, ca_extension)
    example_queries,
    \* the branding wizard (streamlit_app.py, both variants)
    variant,                 \* which of the two streamlit_app.py files runs
    session_state,           \* st.session_state once a script run has ended
    last_event               \* the interaction that caused the last script run

frameVars == <<pc, num_records, join_key_values, llm, schema_data, text_samples, ret>>

tablesVars ==
    <<demo_data, enable_search_service, enable_semantic_view, table1_entity_ids,
      table2_entity_ids, table_idx, results, structured_tables_data,
      unstructured_table_info, calls, st_messages>>

viewVars == <<table1_schema, table2_schema, semantic_elements, example_queries>>

wizardVars == <<variant, session_state, last_event>>

vars == <<frameVars, tablesVars, viewVars, wizardVars>>

\* The state of a procedure that is not running in the specification at hand.
IdleTables ==
    /\ demo_data = <<>>
    /\ enable_search_service = FALSE
    /\ enable_semantic_view = FALSE
    /\ table1_entity_ids = <<>>
    /\ table2_entity_ids = <<>>
    /\ table_idx = 0
    /\ results = <<>>
    /\ structured_tables_data = <<>>
    /\ unstructured_table_info = <<>>
    /\ calls = <<>>
    /\ st_messages = {}

IdleView ==
    /\ table1_schema = <<>>
    /\ table2_schema = <<>>
    /\ semantic_elements = <<>>
    /\ example_queries = <<>>

IdleWizard ==
    /\ variant = "none"
    /\ session_state = <<>>
    /\ last_event = <<>>

-----------------------------------------------------------------------------
(* Bounds of the model.                                                    *)

MaxRecords == 2

MaxCols == 2

-----------------------------------------------------------------------------
(* Python values and outcomes.                                             *)

IntV(n) == [t |-> "int", n |-> n]

StrV(s) == [t |-> "str", s |-> s]

\* An f-string such as f"Sample_{i+1}".
FmtV(prefix, k) == [t |-> "str", prefix |-> prefix, k |-> k]

\* random.choice(from): a value drawn from the list `from`; the draw decides
\* no branch.
Draw(type, from) == [t |-> type, drawn_from |-> from]

\* random.randint(lo, hi) / random.uniform(lo, hi), or a date that many days back.
DrawRange(type, lo, hi) == [t |-> type, lo |-> lo, hi |-> hi]

\* A call either returns a value or raises an exception.
Return(v) == [raised |-> FALSE, value |-> v]

Raise(exc) == [raised |-> TRUE, exc |-> exc]

\* Optional[list]: join_key_values=None or a list.
NoneList == [is_none |-> TRUE, items |-> <<>>]

SomeList(items) == [is_none |-> FALSE, items |-> items]

NoRet == [raised |-> FALSE, value |-> <<>>, pending |-> TRUE]

-----------------------------------------------------------------------------
(* str(x).isdigit(), int(x) and float(x) on the sample values an LLM      *)
(* schema can carry (JSON strings and JSON integers).                      *)

DigitStrings == {"12", "7"}

FloatStrings == {"12", "7", "-5", "2.5"}

\* str(x).isdigit(): str of a JSON integer is all digits iff it is not negative.
StrIsDigit(x) ==
    IF x.t = "int" THEN x.n >= 0 ELSE x.s \in DigitStrings

\* int(x) for an x that passed str(x).isdigit().
IntOf(x) ==
    IF x.t = "int" THEN x.n
    ELSE CASE x.s = "12" -> 12
           [] x.s = "7" -> 7

\* float(x) raises ValueError on a string that is no number.
FloatParses(x) ==
    IF x.t = "int" THEN TRUE ELSE x.s \in FloatStrings

\* col['type'].upper()
Upper(s) ==
    CASE s = "number" -> "NUMBER"
      [] s = "varchar" -> "VARCHAR"
      [] OTHER -> s

\* 'ID' in col_name.upper()
ContainsID(name) == name \in {"ENTITY_ID", "CUSTOMER_ID", "ID"}

\* [int(x) for x in sample_values if str(x).isdigit()]
DigitSamples(sample_values) ==
    LET F[k \in 0..Len(sample_values)] ==
            IF k = 0 THEN <<>>
            ELSE IF StrIsDigit(sample_values[k])
                 THEN Append(F[k - 1], IntOf(sample_values[k]))
                 ELSE F[k - 1]
    IN  F[Len(sample_values)]

\* The samples float() accepts.
FloatSamples(sample_values) ==
    LET F[k \in 0..Len(sample_values)] ==
            IF k = 0 THEN <<>>
            ELSE IF FloatParses(sample_values[k])
                 THEN Append(F[k - 1], sample_values[k])
                 ELSE F[k - 1]
    IN  F[Len(sample_values)]

-----------------------------------------------------------------------------
(* generate_data_from_schema                                               *)

\* One column of an LLM schema; `keys` are the keys the JSON object has.
Col(name, type, samples) ==
    [keys |-> {"name", "type", "sample_values"},
     name |-> name, type |-> type, sample_values |-> samples]

\* The assignment without its index: every record takes the first key.
entity_id_assignment_first_key(jkv, i) ==
    IF 1 <= Len(jkv.items)
    THEN {Return(IntV(jkv.items[1]))}
    ELSE {Raise("IndexError")}

\* Lines 141-144: record[col_name] = join_key_values[i].
entity_id_assignment(jkv, i) ==
    IF i + 1 <= Len(jkv.items)
    THEN {Return(IntV(jkv.items[i + 1]))}
    ELSE {Raise("IndexError")}

\* The value generate_data_from_schema assigns to column `col` of record i
\* (0-based, as in the source), or the exception the assignment raises.
CellOutcomes(col, i, jkv) ==
    IF "name" \notin col.keys THEN {Raise("KeyError")}
    ELSE IF "type" \notin col.keys THEN {Raise("KeyError")}
    ELSE
    LET col_name == col.name
        col_type == Upper(col.type)
        sample_values == IF "sample_values" \in col.keys
                         THEN col.sample_values ELSE <<>>
    IN  IF col_name = "ENTITY_ID" /\ ~jkv.is_none
        THEN entity_id_assignment(jkv, i)
        ELSE IF col_type \in {"STRING", "VARCHAR", "TEXT"}
        THEN IF sample_values # <<>>
             THEN {Return(Draw("sample", sample_values))}
             ELSE {Return(FmtV("Sample_", i + 1))}
        ELSE IF col_type \in {"NUMBER", "INTEGER", "INT"}
        THEN IF ContainsID(col_name) /\ col_name # "ENTITY_ID"
             THEN {Return(IntV(i + 1))}
             ELSE IF sample_values # <<>>
             THEN LET digits == DigitSamples(sample_values)
                  IN  IF digits = <<>>
                      THEN {Raise("IndexError")}     \* random.choice([])
                      ELSE {Return(Draw("int", digits))}
             ELSE {Return(DrawRange("int", 1, 1000))}
        ELSE IF col_type \in {"FLOAT", "DECIMAL", "DOUBLE"}
        THEN IF sample_values # <<>>
             THEN LET good == FloatSamples(sample_values)
                  IN  (IF good # <<>> THEN {Return(Draw("float", good))} ELSE {})
                      \cup (IF good # sample_values
                            THEN {Raise("ValueError")} ELSE {})
             ELSE {Return(DrawRange("float", 0, 1000))}
        ELSE IF col_type = "DATE"
        THEN {Return(DrawRange("date", 1, 365))}
        ELSE IF col_type \in {"TIMESTAMP", "DATETIME"}
        THEN {Return(DrawRange("timestamp", 1, 365))}
        ELSE IF col_type = "BOOLEAN"
        THEN {Return(Draw("bool", <<TRUE, FALSE>>))}
        ELSE IF sample_values # <<>>
             THEN {Return(Draw("sample", sample_values))}
             ELSE {Return(FmtV("Value_", i + 1))}

\* The inner loop `for col in schema_data['columns']`: the records (dicts,
\* a later column of the same name overwrites an earlier one) it can build.
RECURSIVE RowOutcomes(_, _, _, _, _)
RowOutcomes(columns, j, i, jkv, record) ==
    IF j > Len(columns) THEN {Return(record)}
    ELSE UNION { IF c.raised THEN {c}
                 ELSE RowOutcomes(columns, j + 1, i, jkv,
                                  (columns[j].name :> c.value) @@ record)
                 : c \in CellOutcomes(columns[j], i, jkv) }

RECURSIVE DataOutcomes(_, _, _, _, _)
DataOutcomes(schema, n, jkv, i, data) ==
    IF i >= n THEN {Return(data)}
    ELSE IF "columns" \notin schema.keys THEN {Raise("KeyError")}
    ELSE UNION { IF r.raised THEN {r}
                 ELSE DataOutcomes(schema, n, jkv, i + 1, Append(data, r.value))
                 : r \in RowOutcomes(schema.columns, 1, i, jkv, <<>>) }

\* generate_data_from_schema(schema_data, num_records, ..., join_key_values):
\* every outcome the call can have.
generate_data_from_schema(schema, n, jkv) ==
    DataOutcomes(schema, n, jkv, 0, <<>>)

-----------------------------------------------------------------------------
(* create_sample_data and generate_fallback_data                           *)

base_columns(jkv) ==
    (IF ~jkv.is_none THEN <<"ENTITY_ID">> ELSE <<>>)
    \o <<"ID", "NAME", "CATEGORY", "VALUE", "STATUS", "CREATED_DATE",
         "MODIFIED_TIMESTAMP">>

SampleCell(col_name, i, jkv) ==
    CASE col_name = "ENTITY_ID" ->
             IF i + 1 <= Len(jkv.items)
             THEN Return(IntV(jkv.items[i + 1])) ELSE Raise("IndexError")
      [] col_name = "ID" -> Return(IntV(i + 1))
      [] col_name = "NAME" -> Return(FmtV("_Item_", i + 1))
      [] col_name = "CATEGORY" ->
             Return(Draw("str", <<"A", "B", "C", "Premium">>))
      [] col_name = "VALUE" -> Return(DrawRange("float", 10, 1000))
      [] col_name = "STATUS" ->
             Return(Draw("str", <<"Active", "Inactive", "Pending">>))
      [] col_name = "CREATED_DATE" -> Return(DrawRange("date", 1, 365))
      [] col_name = "MODIFIED_TIMESTAMP" -> Return(DrawRange("timestamp", 0, 30))

RECURSIVE SampleRow(_, _, _, _, _)
SampleRow(columns, j, i, jkv, record) ==
    IF j > Len(columns) THEN Return(record)
    ELSE LET c == SampleCell(columns[j], i, jkv)
         IN  IF c.raised THEN c
             ELSE SampleRow(columns, j + 1, i, jkv, (columns[j] :> c.value) @@ record)

RECURSIVE SampleData(_, _, _, _)
SampleData(n, jkv, i, data) ==
    IF i >= n THEN Return(data)
    ELSE LET r == SampleRow(base_columns(jkv), 1, i, jkv, <<>>)
         IN  IF r.raised THEN r
             ELSE SampleData(n, jkv, i + 1, Append(data, r.value))

\* create_sample_data(table_type, table_name, num_records, company_name,
\* join_key_values)
create_sample_data(n, jkv) == SampleData(n, jkv, 0, <<>>)

\* generate_fallback_data(table_name, num_records, company_name, join_key_values)
generate_fallback_data(n, jkv) == create_sample_data(n, jkv)

-----------------------------------------------------------------------------
(* generate_realistic_content_with_llm                                     *)

\* The LLM step: session.sql(...COMPLETE...).collect() raises, or answers
\* with a text that holds no {...}, a {...} that is no JSON, or a JSON object.
QueryRaises == [query |-> "raises"]

Answer(response) == [query |-> "ok", response |-> response]

TextNoObject == [object |-> "none"]

TextBadJson == [object |-> "invalid"]

TextJson(data) == [object |-> "json", data |-> data]

NoMatch == [matched |-> FALSE]

\* re.search(r'\{.*\}', schema_response, re.DOTALL): None when no {...}.
re_search_object(response) ==
    IF response.object = "none" THEN NoMatch
    ELSE [matched |-> TRUE, group0 |-> response]

\* json.loads(json_str)
json_loads(json_str) ==
    IF json_str.object = "json" THEN Return(json_str.data)
    ELSE Raise("JSONDecodeError")

\* An outcome together with the st.warning the handler that produced it emitted.
Warned(outcome, warning) == outcome @@ [warning |-> warning]

\* Lines 60-65: the inner try block, before any handler.
realistic_inner_try(n, jkv, response) ==
    LET match == re_search_object(response)
    IN  IF ~match.matched THEN {Raise("AttributeError")}   \* None.group(0)
        ELSE LET parsed == json_loads(match.group0)
             IN  IF parsed.raised THEN {parsed}
                 ELSE generate_data_from_schema(parsed.value, n, jkv)

\* The generator with its outer handler narrowed to JSONDecodeError: any other
\* exception of the try block propagates to the caller.
realistic_outer_handler_narrowed(n, jkv, step) ==
    IF step.query = "raises" THEN {Warned(Raise("SnowparkSQLException"), "none")}
    ELSE { IF ~o.raised THEN Warned(o, "none")
           ELSE IF o.exc = "JSONDecodeError"
           THEN Warned(generate_fallback_data(n, jkv), "Could not parse schema")
           ELSE Warned(o, "none")
           : o \in realistic_inner_try(n, jkv, step.response) }

\* generate_realistic_content_with_llm(table_info, num_records, company_name,
\* is_structured_table, join_key_values): every outcome of the call for the
\* LLM step `step`.  An exception raised inside a handler propagates.
generate_realistic_content_with_llm(n, jkv, step) ==
    IF step.query = "raises"
    THEN {Warned(generate_fallback_data(n, jkv), "Error generating schema")}
    ELSE { IF ~o.raised THEN Warned(o, "none")
           ELSE IF o.exc = "JSONDecodeError"
           THEN Warned(generate_fallback_data(n, jkv), "Could not parse schema")
           ELSE Warned(generate_fallback_data(n, jkv), "Error generating schema")
           : o \in realistic_inner_try(n, jkv, step.response) }

-----------------------------------------------------------------------------
(* The data generators as a specification: Init draws the arguments, one   *)
(* action per generator applies it to them.                                 *)

\* The columns an LLM schema is drawn from: one per branch of
\* generate_data_from_schema, and the malformed ones.
LlmColumns ==
    { Col("ENTITY_ID", "NUMBER", <<>>),
      Col("CUSTOMER_ID", "number", <<StrV("12")>>),
      Col("AMOUNT", "NUMBER", <<IntV(12), StrV("7"), StrV("-5")>>),
      Col("AMOUNT", "INTEGER", <<IntV(-5), StrV("2.5"), StrV("abc")>>),
      Col("NAME", "STRING", <<StrV("abc")>>),
      Col("PRICE", "FLOAT", <<StrV("2.5"), StrV("abc")>>),
      Col("PRICE", "DECIMAL", <<>>),
      Col("CREATED", "DATE", <<>>),
      Col("ACTIVE", "BOOLEAN", <<>>),
      Col("REGION", "GEOGRAPHY", <<>>),
      [keys |-> {"name"}, name |-> "NOTE"],
      [keys |-> {"type"}, type |-> "STRING"] }

SeqsUpTo(S, k) == UNION { [1..m -> S] : m \in 0..k }

\* The JSON objects the LLM can answer with: with or without 'columns'.
SchemaObjects ==
    { [keys |-> {"columns"}, columns |-> cs] : cs \in SeqsUpTo(LlmColumns, MaxCols) }
    \cup { [keys |-> {}] }

LlmSchemaSteps ==
    {QueryRaises, Answer(TextNoObject), Answer(TextBadJson)}
    \cup { Answer(TextJson(sd)) : sd \in SchemaObjects }

\* The join keys handed to a generator: none, a list long enough, a short one.
KeyList(k) == [m \in 1..k |-> 2 * k + 1 - m]

JoinKeyChoices == {NoneList, SomeList(KeyList(MaxRecords)), SomeList(KeyList(1))}

NoStep == [query |-> "none"]

NoSchema == [keys |-> {}, none |-> TRUE]

InitGen ==
    /\ pc = "start"
    /\ num_records \in 0..MaxRecords
    /\ join_key_values \in JoinKeyChoices
    /\ llm = NoStep
    /\ schema_data = NoSchema
    /\ text_samples = <<>>
    /\ ret = NoRet
    /\ IdleTables
    /\ IdleWizard
    /\ IdleView

CallGenerateRealisticContentWithLlm ==
    /\ pc = "start"
    /\ \E step \in LlmSchemaSteps :
         /\ llm' = step
         /\ schema_data' = IF step.query = "ok" /\ step.response.object = "json"
                           THEN step.response.data ELSE NoSchema
         /\ ret' \in generate_realistic_content_with_llm(num_records,
                                                         join_key_values, step)
    /\ pc' = "generate_realistic_content_with_llm"
    /\ UNCHANGED <<num_records, join_key_values, text_samples>>
    /\ UNCHANGED tablesVars
    /\ UNCHANGED viewVars
    /\ UNCHANGED wizardVars

CallGenerateDataFromSchema ==
    /\ pc = "start"
    /\ \E sd \in SchemaObjects :
         /\ schema_data' = sd
         /\ ret' \in generate_data_from_schema(sd, num_records, join_key_values)
    /\ pc' = "generate_data_from_schema"
    /\ UNCHANGED <<num_records, join_key_values, llm, text_samples>>
    /\ UNCHANGED tablesVars
    /\ UNCHANGED viewVars
    /\ UNCHANGED wizardVars

CallCreateSampleData ==
    /\ pc = "start"
    /\ ret' = create_sample_data(num_records, join_key_values)
    /\ pc' = "create_sample_data"
    /\ UNCHANGED <<num_records, join_key_values, llm, schema_data, text_samples>>
    /\ UNCHANGED tablesVars
    /\ UNCHANGED viewVars
    /\ UNCHANGED wizardVars

NextGen ==
    \/ CallGenerateRealisticContentWithLlm
    \/ CallGenerateDataFromSchema
    \/ CallCreateSampleData

SpecGen == InitGen /\ [][NextGen]_vars

-----------------------------------------------------------------------------
(* Texts.  A text is a sequence of tokens: "." and " " are the characters  *)
(* full stop and blank, any other token is a run of characters that holds  *)
(* no ". " and neither starts nor ends with a blank.  Lengths are counted  *)
(* in tokens.                                                               *)

TextV(tokens) == [t |-> "str", tokens |-> tokens]

\* full_text.split('. ')
RECURSIVE SplitScan(_, _, _)
SplitScan(text, k, cur) ==
    IF k > Len(text) THEN <<cur>>
    ELSE IF text[k] = "." /\ k + 1 <= Len(text) /\ text[k + 1] = " "
    THEN <<cur>> \o SplitScan(text, k + 2, <<>>)
    ELSE SplitScan(text, k + 1, Append(cur, text[k]))

split_sentences(text) == SplitScan(text, 1, <<>>)

\* '. '.join(chunk_sentences)
RECURSIVE join_sentences(_)
join_sentences(sentences) ==
    IF sentences = <<>> THEN <<>>
    ELSE IF Len(sentences) = 1 THEN sentences[1]
    ELSE sentences[1] \o <<".", " ">> \o join_sentences(Tail(sentences))

\* chunk_text.endswith('.')
endswith_dot(text) == text # <<>> /\ text[Len(text)] = "."

\* chunk_text.strip()
RECURSIVE lstrip(_)
lstrip(text) ==
    IF text # <<>> /\ text[1] = " " THEN lstrip(Tail(text)) ELSE text

RECURSIVE rstrip(_)
rstrip(text) ==
    IF text # <<>> /\ text[Len(text)] = " "
    THEN rstrip(SubSeq(text, 1, Len(text) - 1)) ELSE text

strip(text) == rstrip(lstrip(text))

\* sentences[j:j+chunk_size] with a 0-based j.
Slice(seq, j, size) ==
    SubSeq(seq, j + 1, IF j + size <= Len(seq) THEN j + size ELSE Len(seq))

-----------------------------------------------------------------------------
(* generate_chunked_data_from_samples, generate_fallback_unstructured_data *)
(* and generate_unstructured_content_with_llm                              *)

\* The chunk records of document i (0-based) cut from `sentences`, from
\* position j on; chunk_id is the running chunk counter.
RECURSIVE DocChunks(_, _, _, _, _)
DocChunks(sentences, chunk_size, j, i, chunk_id) ==
    IF j >= Len(sentences) THEN <<>>
    ELSE LET joined == join_sentences(Slice(sentences, j, chunk_size))
             chunk_text == IF joined # <<>> /\ ~endswith_dot(joined)
                           THEN Append(joined, ".") ELSE joined
         IN  IF strip(chunk_text) # <<>>
             THEN << [CHUNK_ID |-> FmtV("CHUNK_", chunk_id),
                      DOCUMENT_ID |-> FmtV("DOC_", i + 1),
                      CHUNK_TEXT |-> strip(chunk_text),
                      CHUNK_POSITION |-> (j \div chunk_size) + 1,
                      CHUNK_LENGTH |-> Len(chunk_text),
                      CREATED_DATE |-> DrawRange("date", 1, 365),
                      LAST_MODIFIED |-> DrawRange("timestamp", 0, 30)] >>
                  \o DocChunks(sentences, chunk_size, j + chunk_size, i, chunk_id + 1)
             ELSE DocChunks(sentences, chunk_size, j + chunk_size, i, chunk_id)

\* The loop `for i in range(num_records)`: random.choice(text_samples) raises
\* IndexError on an empty list, .split raises AttributeError on a sample that
\* is no string, random.randint(1, 2) draws the chunk size.
RECURSIVE ChunkedOutcomes(_, _, _, _)
ChunkedOutcomes(samples, n, i, data) ==
    IF i >= n THEN {Return(data)}
    ELSE IF samples = <<>> THEN {Raise("IndexError")}
    ELSE UNION { IF samples[k].t # "str" THEN {Raise("AttributeError")}
                 ELSE UNION { ChunkedOutcomes(samples, n, i + 1,
                                  data \o DocChunks(split_sentences(samples[k].tokens),
                                                    chunk_size, 0, i, Len(data) + 1))
                              : chunk_size \in 1..2 }
                 : k \in 1..Len(samples) }

generate_chunked_data_from_samples(samples, n) ==
    ChunkedOutcomes(samples, n, 0, <<>>)

\* The ten fixed texts: each one sentence that ends with a full stop.
fallback_texts ==
    << TextV(<<"This document contains important business information that needs to be searchable and accessible", ".">>),
       TextV(<<"The quarterly review shows significant improvements in key performance indicators across all departments", ".">>),
       TextV(<<"Customer feedback indicates high satisfaction with our latest product features and service quality", ".">>),
       TextV(<<"Compliance requirements have been updated to reflect the latest regulatory changes in our industry", ".">>),
       TextV(<<"The technical documentation provides detailed instructions for system configuration and maintenance", ".">>),
       TextV(<<"Market analysis reveals new opportunities for expansion in emerging geographical regions", ".">>),
       TextV(<<"Employee training materials have been revised to include best practices and updated procedures", ".">>),
       TextV(<<"Financial projections indicate steady growth potential over the next fiscal year period", ".">>),
       TextV(<<"Quality assurance protocols ensure consistent delivery of services meeting industry standards", ".">>),
       TextV(<<"Strategic planning documents outline key initiatives for digital transformation and innovation", ".">>) >>

generate_fallback_unstructured_data(n) ==
    generate_chunked_data_from_samples(fallback_texts, n)

TextNoArray == [array |-> "none"]

TextBadArray == [array |-> "invalid"]

TextArray(samples) == [array |-> "json", data |-> samples]

\* re.search(r'\[.*\]', content_response, re.DOTALL)
re_search_array(response) ==
    IF response.array = "none" THEN NoMatch
    ELSE [matched |-> TRUE, group0 |-> response]

json_loads_array(json_str) ==
    IF json_str.array = "json" THEN Return(json_str.data)
    ELSE Raise("JSONDecodeError")

\* Lines 112-117: the inner try block, before any handler.
unstructured_inner_try(n, response) ==
    LET match == re_search_array(response)
    IN  IF ~match.matched THEN {Raise("AttributeError")}
        ELSE LET parsed == json_loads_array(match.group0)
             IN  IF parsed.raised THEN {parsed}
                 ELSE generate_chunked_data_from_samples(parsed.value, n)

WarnedAll(outcomes, warning) == { Warned(o, warning) : o \in outcomes }

\* The generator with its outer handler narrowed to JSONDecodeError.
unstructured_outer_handler_narrowed(n, step) ==
    IF step.query = "raises" THEN {Warned(Raise("SnowparkSQLException"), "none")}
    ELSE UNION { IF ~o.raised THEN {Warned(o, "none")}
                 ELSE IF o.exc = "JSONDecodeError"
                 THEN WarnedAll(generate_fallback_unstructured_data(n),
                                "Could not parse content")
                 ELSE {Warned(o, "none")}
                 : o \in unstructured_inner_try(n, step.response) }

\* generate_unstructured_content_with_llm(table_info, num_records, company_name)
generate_unstructured_content_with_llm(n, step) ==
    IF step.query = "raises"
    THEN WarnedAll(generate_fallback_unstructured_data(n), "Error generating content")
    ELSE UNION { IF ~o.raised THEN {Warned(o, "none")}
                 ELSE IF o.exc = "JSONDecodeError"
                 THEN WarnedAll(generate_fallback_unstructured_data(n),
                                "Could not parse content")
                 ELSE WarnedAll(generate_fallback_unstructured_data(n),
                                "Error generating content")
                 : o \in unstructured_inner_try(n, step.response) }

\* The elements an LLM array is drawn from: texts of one or two sentences,
\* with and without a final full stop, blank at the ends, empty; and a number.
LlmSamples ==
    { TextV(<<"x", ".", " ", "y">>),
      TextV(<<"y", ".">>),
      TextV(<<>>),
      TextV(<<" ", "x", ".", " ">>),
      IntV(5) }

MaxSamples == 2

LlmContentSteps ==
    {QueryRaises, Answer(TextNoArray), Answer(TextBadArray)}
    \cup { Answer(TextArray(a)) : a \in SeqsUpTo(LlmSamples, MaxSamples) }

InitUnstructured ==
    /\ pc = "start"
    /\ num_records \in 0..MaxRecords
    /\ join_key_values = NoneList
    /\ llm = NoStep
    /\ schema_data = NoSchema
    /\ text_samples = <<>>
    /\ ret = NoRet
    /\ IdleTables
    /\ IdleWizard
    /\ IdleView

CallGenerateUnstructuredContentWithLlm ==
    /\ pc = "start"
    /\ \E step \in LlmContentSteps :
         /\ llm' = step
         /\ text_samples' = IF step.query = "ok" /\ step.response.array = "json"
                            THEN step.response.data ELSE <<>>
         /\ ret' \in generate_unstructured_content_with_llm(num_records, step)
    /\ pc' = "generate_unstructured_content_with_llm"
    /\ UNCHANGED <<num_records, join_key_values, schema_data>>
    /\ UNCHANGED tablesVars
    /\ UNCHANGED viewVars
    /\ UNCHANGED wizardVars

NextUnstructured == CallGenerateUnstructuredContentWithLlm

SpecUnstructured == InitUnstructured /\ [][NextUnstructured]_vars

-----------------------------------------------------------------------------
(* create_tables_in_snowflake.  The procedure is cut at its calls to the   *)
(* warehouse: schema creation and the ID lists, one step per table of the  *)
(* loop, the semantic view, the search service, the return.  An exception  *)
(* anywhere in the body reaches the handler of lines 1237-1239.            *)

MaxFlowRecords == 1

Table(key, name) == [key |-> key, name |-> name]

\* 'CHUNKS' in table_name
NameHasChunks(name) == name \in {"DOCS_CHUNKS", "NOTES_CHUNKS"}

\* 'unstructured' in table_key
KeyHasUnstructured(key) == key \in {"unstructured", "unstructured_1"}

\* Line 1154 (and, negated, line 1175).
IsUnstructured(table) == NameHasChunks(table.name) \/ KeyHasUnstructured(table.key)

\* The permutations random.shuffle can leave a list of length n in.
Perms(n) == { f \in [1..n -> 1..n] : \A a, b \in 1..n : a # b => f[a] # f[b] }

Shuffles(list) == { [k \in 1..Len(list) |-> list[f[k]]] : f \in Perms(Len(list)) }

\* list[a:b] for 0 <= a <= b.
PySlice(list, a, b) ==
    SubSeq(list, a + 1, IF b <= Len(list) THEN b ELSE Len(list))

\* int(num_records * 0.7); the float product truncates to this for
\* num_records below 90.
overlap_size(n) == (7 * n) \div 10

\* Lines 1130-1134.
table1_ids(base_entity_ids, n) == PySlice(base_entity_ids, 0, n)

\* Lines 1137-1138, before the shuffle of line 1139.
table2_ids_unshuffled(base_entity_ids, n) ==
    PySlice(table1_ids(base_entity_ids, n), 0, overlap_size(n))
    \o PySlice(base_entity_ids, n, n + (n - overlap_size(n)))

\* table_entity_ids.get(table_key, table1_entity_ids)
entity_ids_for_table(table_key, ids1, ids2) ==
    IF table_key = "structured_1" THEN ids1
    ELSE IF table_key = "structured_2" THEN ids2
    ELSE ids1

\* dict[key] = value on a dict kept as its items in insertion order.
DictPut(dict, key, value) ==
    IF \E k \in 1..Len(dict) : dict[k].key = key
    THEN [k \in 1..Len(dict) |->
             IF dict[k].key = key THEN [key |-> key] @@ value ELSE dict[k]]
    ELSE Append(dict, [key |-> key] @@ value)

\* list(df.columns) of pd.DataFrame(sample_data), as a set.
DataColumns(data) == UNION { DOMAIN data[k] : k \in 1..Len(data) }

TableResult(table, data) ==
    [table |-> table.name, records |-> IntV(Len(data)),
     columns |-> DataColumns(data)]

\* The procedure without its handler: the exception leaves it.
HandlerMissing ==
    /\ pc' = "done"
    /\ ret' = Raise("Exception")
    /\ st_messages' = st_messages

\* The handler of lines 1237-1239: st.error and return [].
HandlerReturnsEmpty ==
    /\ pc' = "done"
    /\ ret' = Return(<<>>)
    /\ st_messages' = st_messages \cup {"Error creating tables"}

\* Line 1121 raises.
CreateSchemaRaises ==
    /\ pc = "start"
    /\ calls' = Append(calls, [fn |-> "CREATE SCHEMA", raised |-> TRUE])
    /\ HandlerReturnsEmpty
    /\ UNCHANGED viewVars
    /\ UNCHANGED wizardVars
    /\ UNCHANGED <<num_records, join_key_values, llm, schema_data, text_samples>>
    /\ UNCHANGED <<demo_data, enable_search_service, enable_semantic_view,
                   table1_entity_ids, table2_entity_ids, table_idx, results,
                   structured_tables_data, unstructured_table_info>>

\* Lines 1121-1146: the schema is created and the two ID lists are drawn.
CreateSchemaAndIds ==
    /\ pc = "start"
    /\ calls' = Append(calls, [fn |-> "CREATE SCHEMA", raised |-> FALSE])
    /\ \E base_entity_ids \in Shuffles([k \in 1..(2 * num_records) |-> k]) :
         /\ table1_entity_ids' = table1_ids(base_entity_ids, num_records)
         /\ table2_entity_ids' \in
                Shuffles(table2_ids_unshuffled(base_entity_ids, num_records))
    /\ pc' = "tables"
    /\ UNCHANGED viewVars
    /\ UNCHANGED wizardVars
    /\ UNCHANGED <<num_records, join_key_values, llm, schema_data, text_samples, ret>>
    /\ UNCHANGED <<demo_data, enable_search_service, enable_semantic_view,
                   table_idx, results, structured_tables_data,
                   unstructured_table_info, st_messages>>

\* The schemas the LLM answers with for a structured table of the demo: with
\* the ENTITY_ID column it was asked for, without it, with a column whose
\* samples make row generation raise; or the query fails.
TableSchemaSteps ==
    { Answer(TextJson([keys |-> {"columns"},
                       columns |-> <<Col("ENTITY_ID", "NUMBER", <<>>),
                                     Col("NAME", "STRING", <<StrV("abc")>>)>>])),
      Answer(TextJson([keys |-> {"columns"},
                       columns |-> <<Col("NAME", "STRING", <<StrV("abc")>>)>>])),
      Answer(TextJson([keys |-> {"columns"},
                       columns |-> <<Col("ENTITY_ID", "NUMBER", <<>>),
                                     Col("AMOUNT", "INTEGER", <<StrV("-5")>>)>>])),
      QueryRaises }

TableContentSteps ==
    { Answer(TextArray(<<TextV(<<"x", ".", " ", "y">>)>>)), QueryRaises }

\* Lines 1147-1190 for a table taken as structured.
ProcessStructuredTable ==
    /\ pc = "tables"
    /\ table_idx < Len(demo_data)
    /\ ~IsUnstructured(demo_data[table_idx + 1])
    /\ LET table == demo_data[table_idx + 1]
           ids == entity_ids_for_table(table.key, table1_entity_ids,
                                       table2_entity_ids)
       IN  \E step \in TableSchemaSteps :
           \E o \in generate_realistic_content_with_llm(num_records,
                                                        SomeList(ids), step) :
             LET generate == [fn |-> "generate_realistic_content_with_llm",
                              table |-> table.key, ids |-> ids, step |-> step]
                 create == [fn |-> "create_structured_table_with_constraints",
                            table |-> table.key,
                            primary_key |-> "ENTITY_ID" \in DataColumns(o.value)]
             IN  IF o.raised
                 THEN /\ calls' = Append(calls, generate)
                      /\ HandlerReturnsEmpty
                      /\ UNCHANGED <<table_idx, results, structured_tables_data>>
                 ELSE /\ structured_tables_data' =
                             DictPut(structured_tables_data, table.key,
                                     [name |-> table.name, data |-> o.value])
                      /\ IF o.value # <<>>
                         THEN /\ calls' = calls \o <<generate, create>>
                              /\ results' = Append(results, TableResult(table, o.value))
                         ELSE /\ calls' = Append(calls, generate)
                              /\ results' = results
                      /\ table_idx' = table_idx + 1
                      /\ UNCHANGED <<pc, ret, st_messages>>
    /\ UNCHANGED viewVars
    /\ UNCHANGED wizardVars
    /\ UNCHANGED <<num_records, join_key_values, llm, schema_data, text_samples>>
    /\ UNCHANGED <<demo_data, enable_search_service, enable_semantic_view,
                   table1_entity_ids, table2_entity_ids, unstructured_table_info>>

\* Lines 1147-1190 for a table taken as unstructured, the write succeeding.
ProcessUnstructuredTable ==
    /\ pc = "tables"
    /\ table_idx < Len(demo_data)
    /\ IsUnstructured(demo_data[table_idx + 1])
    /\ LET table == demo_data[table_idx + 1]
       IN  \E step \in TableContentSteps :
           \E o \in generate_unstructured_content_with_llm(num_records, step) :
             LET generate == [fn |-> "generate_unstructured_content_with_llm",
                              table |-> table.key, step |-> step]
                 write == [fn |-> "save_as_table", table |-> table.key,
                           raised |-> FALSE]
             IN  IF o.raised
                 THEN /\ calls' = Append(calls, generate)
                      /\ HandlerReturnsEmpty
                      /\ UNCHANGED <<table_idx, results, unstructured_table_info>>
                 ELSE /\ unstructured_table_info' = <<table.name>>
                      /\ IF o.value # <<>>
                         THEN /\ calls' = calls \o <<generate, write>>
                              /\ results' = Append(results, TableResult(table, o.value))
                         ELSE /\ calls' = Append(calls, generate)
                              /\ results' = results
                      /\ table_idx' = table_idx + 1
                      /\ UNCHANGED <<pc, ret, st_messages>>
    /\ UNCHANGED viewVars
    /\ UNCHANGED wizardVars
    /\ UNCHANGED <<num_records, join_key_values, llm, schema_data, text_samples>>
    /\ UNCHANGED <<demo_data, enable_search_service, enable_semantic_view,
                   table1_entity_ids, table2_entity_ids, structured_tables_data>>

\* Lines 1147-1181 for a table taken as unstructured, the write of lines
\* 1180-1181 raising.
ProcessUnstructuredTableWriteRaises ==
    /\ pc = "tables"
    /\ table_idx < Len(demo_data)
    /\ IsUnstructured(demo_data[table_idx + 1])
    /\ LET table == demo_data[table_idx + 1]
       IN  \E step \in TableContentSteps :
           \E o \in generate_unstructured_content_with_llm(num_records, step) :
             /\ ~o.raised
             /\ o.value # <<>>
             /\ unstructured_table_info' = <<table.name>>
             /\ calls' = calls \o
                    << [fn |-> "generate_unstructured_content_with_llm",
                        table |-> table.key, step |-> step],
                       [fn |-> "save_as_table", table |-> table.key,
                        raised |-> TRUE] >>
    /\ HandlerReturnsEmpty
    /\ UNCHANGED viewVars
    /\ UNCHANGED wizardVars
    /\ UNCHANGED <<num_records, join_key_values, llm, schema_data, text_samples>>
    /\ UNCHANGED <<demo_data, enable_search_service, enable_semantic_view,
                   table1_entity_ids, table2_entity_ids, table_idx, results,
                   structured_tables_data>>

\* Line 1197.
semantic_view_gate == enable_semantic_view /\ Len(structured_tables_data) >= 2

\* The search service gate without its flag.
search_service_gate_unflagged == unstructured_table_info # <<>>

\* Line 1221.
search_service_gate == enable_search_service /\ unstructured_table_info # <<>>

\* Lines 1192-1218: the join-key message, then the optional semantic view;
\* create_semantic_view returns None or the view's description, never raises.
SemanticViewStep ==
    /\ pc = "tables"
    /\ table_idx = Len(demo_data)
    /\ st_messages' = st_messages \cup
           (IF Len(structured_tables_data) >= 2
            THEN {"Structured tables created with unique ENTITY_ID join keys"}
            ELSE {})
    /\ IF semantic_view_gate
       THEN \E created \in BOOLEAN :
              /\ calls' = Append(calls,
                     [fn |-> "create_semantic_view",
                      table1 |-> structured_tables_data[1].name,
                      table2 |-> structured_tables_data[2].name])
              /\ results' = IF created
                            THEN Append(results,
                                   [table |-> "SEMANTIC_VIEW", records |-> StrV("View"),
                                    type |-> "semantic_view"])
                            ELSE results
       ELSE UNCHANGED <<calls, results>>
    /\ pc' = "search"
    /\ UNCHANGED viewVars
    /\ UNCHANGED wizardVars
    /\ UNCHANGED <<num_records, join_key_values, llm, schema_data, text_samples, ret>>
    /\ UNCHANGED <<demo_data, enable_search_service, enable_semantic_view,
                   table1_entity_ids, table2_entity_ids, table_idx,
                   structured_tables_data, unstructured_table_info>>

\* Lines 1220-1233: the optional search service; create_cortex_search_service
\* returns None or the service name, never raises.
SearchServiceStep ==
    /\ pc = "search"
    /\ IF search_service_gate
       THEN \E created \in BOOLEAN :
              /\ calls' = Append(calls,
                     [fn |-> "create_cortex_search_service",
                      table |-> unstructured_table_info[1]])
              /\ results' = IF created
                            THEN Append(results,
                                   [table |-> "SEARCH_SERVICE",
                                    records |-> StrV("Service"),
                                    type |-> "search_service"])
                            ELSE results
       ELSE UNCHANGED <<calls, results>>
    /\ pc' = "return"
    /\ UNCHANGED viewVars
    /\ UNCHANGED wizardVars
    /\ UNCHANGED <<num_records, join_key_values, llm, schema_data, text_samples, ret>>
    /\ UNCHANGED <<demo_data, enable_search_service, enable_semantic_view,
                   table1_entity_ids, table2_entity_ids, table_idx,
                   structured_tables_data, unstructured_table_info, st_messages>>

\* Line 1235.
ReturnResults ==
    /\ pc = "return"
    /\ ret' = Return(results)
    /\ pc' = "done"
    /\ UNCHANGED <<num_records, join_key_values, llm, schema_data, text_samples>>
    /\ UNCHANGED tablesVars
    /\ UNCHANGED viewVars
    /\ UNCHANGED wizardVars

\* The demos: demo_data['tables'] as (table_key, name) items.
DemoChoices ==
    { << Table("structured_1", "ORDERS"), Table("structured_2", "CUSTOMERS"),
         Table("unstructured", "DOCS_CHUNKS") >>,
      << Table("unstructured", "DOCS_CHUNKS"), Table("structured_1", "ORDERS"),
         Table("structured_2", "CUSTOMERS") >>,
      << Table("table_1", "ORDERS"), Table("table_2", "CUSTOMERS") >>,
      << Table("structured_1", "ORDERS"), Table("structured_2", "NOTES_CHUNKS") >>,
      << Table("structured_1", "ORDERS") >> }

InitFrameIdle ==
    /\ pc = "start"
    /\ join_key_values = NoneList
    /\ llm = NoStep
    /\ schema_data = NoSchema
    /\ text_samples = <<>>
    /\ ret = NoRet

InitTablesLocals ==
    /\ table1_entity_ids = <<>>
    /\ table2_entity_ids = <<>>
    /\ table_idx = 0
    /\ results = <<>>
    /\ structured_tables_data = <<>>
    /\ unstructured_table_info = <<>>
    /\ calls = <<>>
    /\ st_messages = {}
    /\ IdleView
    /\ IdleWizard

Init ==
    /\ InitFrameIdle
    /\ num_records \in 0..MaxFlowRecords
    /\ demo_data \in DemoChoices
    /\ enable_search_service \in BOOLEAN
    /\ enable_semantic_view \in BOOLEAN
    /\ InitTablesLocals

Next ==
    \/ CreateSchemaRaises
    \/ CreateSchemaAndIds
    \/ ProcessStructuredTable
    \/ ProcessUnstructuredTable
    \/ ProcessUnstructuredTableWriteRaises
    \/ SemanticViewStep
    \/ SearchServiceStep
    \/ ReturnResults

Spec == Init /\ [][Next]_vars

\* The runs in which the warehouse does not fail, for the claims about the
\* ENTITY_ID lists: more records, the demos with two structured tables.
JoinDemoChoices ==
    { << Table("structured_1", "ORDERS"), Table("structured_2", "CUSTOMERS") >>,
      << Table("table_1", "ORDERS"), Table("table_2", "CUSTOMERS") >> }

InitIds ==
    /\ InitFrameIdle
    /\ num_records \in 1..MaxRecords
    /\ demo_data \in JoinDemoChoices
    /\ enable_search_service = FALSE
    /\ enable_semantic_view = FALSE
    /\ InitTablesLocals

NextIds ==
    \/ CreateSchemaAndIds
    \/ ProcessStructuredTable
    \/ SemanticViewStep
    \/ SearchServiceStep
    \/ ReturnResults

SpecIds == InitIds /\ [][NextIds]_vars

-----------------------------------------------------------------------------
(* Semantic elements: generate_semantic_elements_with_schema, its fallback *)
(* and generate_ca_extension.  Names and column references are texts;      *)
(* "." is a token of its own.                                               *)

MaxFacts == 2

table1_name == <<"ORDERS">>

table2_name == <<"CUSTOMERS">>

\* text.split('.')
RECURSIVE SplitDotScan(_, _, _)
SplitDotScan(text, k, cur) ==
    IF k > Len(text) THEN <<cur>>
    ELSE IF text[k] = "."
    THEN <<cur>> \o SplitDotScan(text, k + 1, <<>>)
    ELSE SplitDotScan(text, k + 1, Append(cur, text[k]))

split_dot(text) == SplitDotScan(text, 1, <<>>)

\* f"{table}.{column}"
Qualified(table, column) == table \o <<".">> \o column

\* syn.replace(' ', '_').replace('-', '_')
clean_synonym(syn) ==
    [k \in 1..Len(syn) |-> IF syn[k] \in {" ", "-"} THEN "_" ELSE syn[k]]

\* comment.replace("'", "''")
RECURSIVE escape_quotes(_)
escape_quotes(text) ==
    IF text = <<>> THEN <<>>
    ELSE IF text[1] = "'" THEN <<"'", "'">> \o escape_quotes(Tail(text))
    ELSE <<text[1]>> \o escape_quotes(Tail(text))

\* One line of facts_sql or dimensions_sql:
\* "<full_reference> as <name> with synonyms=(...) comment='...'".
SqlLine(full_reference, name, synonyms, comment) ==
    [full_reference |-> full_reference, name |-> name,
     synonyms |-> synonyms, comment |-> comment]

ElementKeys == {"table_column", "name", "synonyms", "comment"}

\* A fact or dimension of the LLM's JSON object.
Element(table_column, name) ==
    [keys |-> ElementKeys, table_column |-> table_column, name |-> name,
     synonyms |-> << <<"total", " ", "value">> >>,
     comment |-> <<"the", " ", "customer", "'", "s">>]

\* Lines 645-650.
entity_ids_added(facts_list) ==
    { split_dot(facts_list[k].table_column)[1] :
        k \in { j \in 1..Len(facts_list) :
                  LET table_col_parts == split_dot(facts_list[j].table_column)
                  IN  /\ Len(table_col_parts) = 2
                      /\ table_col_parts[2] = <<"ENTITY_ID">> } }

\* Lines 655-660: the fact appended for a table without an ENTITY_ID fact.
entity_id_fact(table_name) ==
    [keys |-> ElementKeys,
     table_column |-> Qualified(table_name, <<"ENTITY_ID">>),
     name |-> <<"ENTITY_ID">>,
     synonyms |-> << <<"id">>, <<"entity_key">>, <<"record_id">>,
                     <<"unique_identifier">>, <<"identifier">> >>,
     comment |-> <<"Unique identifier for joining tables from", " ">> \o table_name]

\* Lines 643-660.
with_entity_id_facts(facts_list) ==
    LET missing(table_name) ==
            IF table_name \notin entity_ids_added(facts_list)
            THEN <<entity_id_fact(table_name)>> ELSE <<>>
    IN  facts_list \o missing(table1_name) \o missing(table2_name)

\* Lines 662-678 (facts) and 684-700 (dimensions): the line of one element.
element_sql(element) ==
    LET table_col_parts == split_dot(element.table_column)
        full_reference ==
            IF Len(table_col_parts) = 2
            THEN Qualified(table_col_parts[1], table_col_parts[2])
            ELSE Qualified(table1_name, element.table_column)
    IN  SqlLine(full_reference, element.name,
                [k \in 1..Len(element.synonyms) |-> clean_synonym(element.synonyms[k])],
                escape_quotes(element.comment))

elements_sql(elements) == [k \in 1..Len(elements) |-> element_sql(elements[k])]

\* 'ID' in col_name.upper(), and the like, on the column names of the model.
NameHasID(col_name) == col_name \in {<<"ENTITY_ID">>, <<"ORDER_ID">>}

NameHasCostPriceRevenue(col_name) == col_name \in {<<"PRICE">>}

NameHasPercentageRate(col_name) == col_name \in {<<"TAX_RATE">>}

NameHasName(col_name) == col_name \in {<<"NAME">>}

NameHasStatus(col_name) == col_name \in {<<"STATUS">>}

NameHasDateOrTime(col_name) == col_name \in {<<"CREATED_DATE">>}

Three(v) == <<v, v, v>>

\* Lines 808-836.
get_sample_values(col_name, col_type) ==
    IF col_type \in {"NUMBER", "INTEGER", "FLOAT", "DECIMAL"}
    THEN IF NameHasID(col_name) THEN Three(DrawRange("str(int)", 1, 200))
         ELSE IF NameHasCostPriceRevenue(col_name)
         THEN Three(DrawRange("str(round 2)", 100, 5000))
         ELSE IF NameHasPercentageRate(col_name)
         THEN Three(DrawRange("str(round 1)", 0, 100))
         ELSE Three(DrawRange("str(round 2)", 1, 1000))
    ELSE IF col_type \in {"VARCHAR", "STRING", "TEXT"}
    THEN IF NameHasID(col_name) THEN Three(DrawRange("ID_", 1000, 9999))
         ELSE IF NameHasName(col_name) THEN <<"Alpha", "Beta", "Gamma">>
         ELSE IF NameHasStatus(col_name) THEN <<"Active", "Inactive", "Pending">>
         ELSE <<"Value_A", "Value_B", "Value_C">>
    ELSE IF col_type = "DATE"
    THEN <<"2024-01-15", "2024-02-20", "2024-03-10">>
    ELSE IF col_type \in {"TIMESTAMP", "DATETIME"}
    THEN <<"2024-01-15T10:30:00.000+0000", "2024-02-20T14:15:00.000+0000",
           "2024-03-10T09:45:00.000+0000">>
    ELSE IF col_type = "BOOLEAN" THEN <<"TRUE", "FALSE", "TRUE">>
    ELSE <<"Sample_1", "Sample_2", "Sample_3">>

\* Lines 844-850 and 871-877: the declared type of the column, the default
\* when neither table declares it.
column_type(table_name, col_name, default, s1, s2) ==
    LET hits(schema) == { k \in 1..Len(schema) : schema[k].name = col_name }
        first(schema) ==
            schema[CHOOSE k \in hits(schema) : \A j \in hits(schema) : k <= j].type
        after1 == IF table1_name = table_name /\ hits(s1) # {}
                  THEN first(s1) ELSE default
    IN  IF table2_name = table_name /\ hits(s2) # {} THEN first(s2) ELSE after1

\* The entries generate_ca_extension appends to one list of one table of
\* ca_data: dimensions (of_time = FALSE) or time_dimensions (of_time = TRUE)
\* when by_time, facts otherwise.
ca_entries(elements, table_name, default, by_time, of_time, s1, s2) ==
    LET F[k \in 0..Len(elements)] ==
            IF k = 0 THEN <<>>
            ELSE LET parts == split_dot(elements[k].table_column)
                     col_name == parts[2]
                     col_type == column_type(parts[1], col_name, default, s1, s2)
                     is_time == \/ NameHasDateOrTime(col_name)
                                \/ col_type \in {"DATE", "TIMESTAMP", "DATETIME"}
                 IN  IF parts[1] = table_name /\ (by_time => (is_time <=> of_time))
                     THEN Append(F[k - 1],
                                 [name |-> col_name,
                                  sample_values |-> get_sample_values(col_name, col_type)])
                     ELSE F[k - 1]
    IN  F[Len(elements)]

ElementsOf(elements_data, key) ==
    IF key \in elements_data.keys THEN elements_data[key] ELSE <<>>

\* json.dumps(value).replace('"', '\\"')
EscapedJson(value) == [escaped_json |-> value]

\* Lines 785-898; the elements carry their four keys when it is called.
generate_ca_extension(s1, s2, elements_data) ==
    LET dimensions == ElementsOf(elements_data, "dimensions")
        facts == ElementsOf(elements_data, "facts")
        sample_queries == ElementsOf(elements_data, "sample_queries")
        bare(elements) ==
            \E k \in 1..Len(elements) :
                Len(split_dot(elements[k].table_column)) < 2
        ca_table(table_name) ==
            [name |-> table_name,
             dimensions |-> ca_entries(dimensions, table_name, "STRING", TRUE, FALSE, s1, s2),
             facts |-> ca_entries(facts, table_name, "NUMBER", FALSE, FALSE, s1, s2),
             time_dimensions |-> ca_entries(dimensions, table_name, "STRING", TRUE, TRUE, s1, s2)]
    IN  IF bare(dimensions) \/ bare(facts)
        THEN Raise("IndexError")             \* split('.')[1]
        ELSE Return(EscapedJson(
                 [tables |-> <<ca_table(table1_name), ca_table(table2_name)>>,
                  verified_queries |->
                      [k \in 1..Len(sample_queries) |->
                          [name |-> sample_queries[k], question |-> sample_queries[k],
                           sql_from |-> table1_name]]]))

WellFormedElements(elements) ==
    \A k \in 1..Len(elements) : ElementKeys \subseteq elements[k].keys

\* Lines 637-711: the branch taken when the answer holds a JSON object.
elements_from_llm(s1, s2, elements_data) ==
    LET facts0 == ElementsOf(elements_data, "facts")
        dimensions_list == ElementsOf(elements_data, "dimensions")
    IN  IF ~WellFormedElements(facts0) \/ ~WellFormedElements(dimensions_list)
        THEN Raise("KeyError")
        ELSE LET facts_list == with_entity_id_facts(facts0)
                 \* facts_list is elements_data['facts'] itself when the
                 \* key is there: the appended facts are in it
                 elements_after ==
                     IF "facts" \in elements_data.keys
                     THEN [elements_data EXCEPT !.facts = facts_list]
                     ELSE elements_data
                 ca_extension == generate_ca_extension(s1, s2, elements_after)
             IN  IF ca_extension.raised THEN ca_extension
                 ELSE Return([facts_sql |-> elements_sql(facts_list),
                              dimensions_sql |-> elements_sql(dimensions_list),
                              ca_extension |-> ca_extension.value])

NumericTypes == {"NUMBER", "FLOAT", "INTEGER", "DECIMAL", "DOUBLE"}

DimensionTypes == {"VARCHAR", "TEXT", "STRING", "DATE", "TIMESTAMP", "BOOLEAN"}

FactSynonyms ==
    << <<"value">>, <<"amount">>, <<"quantity">>, <<"measure">>, <<"metric">> >>

EntityIdSynonyms ==
    << <<"id">>, <<"entity_key">>, <<"record_id">>, <<"unique_id">>, <<"identifier">> >>

\* Lines 727-735 for one table: its first numeric column, if any.
first_numeric_fact(table_name, schema) ==
    LET hits == { k \in 1..Len(schema) : schema[k].type \in NumericTypes }
    IN  IF hits = {} THEN <<>>
        ELSE LET col == schema[CHOOSE k \in hits : \A j \in hits : k <= j]
             IN  << SqlLine(Qualified(table_name, col.name), col.name, FactSynonyms,
                            <<"Numeric value from", " ">> \o table_name) >>

\* Lines 723-739.
fallback_facts(s1, s2) ==
    LET found == first_numeric_fact(table1_name, s1)
                 \o first_numeric_fact(table2_name, s2)
    IN  IF found = <<>>
        THEN << SqlLine(Qualified(table1_name, <<"ENTITY_ID">>), <<"ENTITY_ID">>,
                        EntityIdSynonyms,
                        <<"Unique identifier for joining tables">>) >>
        ELSE found

\* Lines 745-757 for one table, without the limit.
dimension_lines(table_name, schema) ==
    LET F[k \in 0..Len(schema)] ==
            IF k = 0 THEN <<>>
            ELSE IF /\ schema[k].type \in DimensionTypes
                    /\ schema[k].name # <<"ENTITY_ID">>
            THEN Append(F[k - 1],
                   SqlLine(Qualified(table_name, schema[k].name), schema[k].name,
                           IF schema[k].type \in {"DATE", "TIMESTAMP"}
                           THEN "date/time synonyms" ELSE "text synonyms",
                           (IF schema[k].type \in {"DATE", "TIMESTAMP"}
                            THEN <<"Date/time dimension from", " ">>
                            ELSE <<"Text dimension from", " ">>) \o table_name))
            ELSE F[k - 1]
    IN  F[Len(schema)]

\* The dimensions without the breaks of lines 756-759.
fallback_dimensions_unlimited(s1, s2) ==
    LET all == dimension_lines(table1_name, s1) \o dimension_lines(table2_name, s2)
    IN  IF all = <<>>
        THEN << SqlLine(Qualified(table1_name, <<"ENTITY_ID">>), <<"ENTITY_KEY">>,
                        "key synonyms", <<"Entity key dimension">>) >>
        ELSE all

\* Lines 741-761: at most three dimensions in all.
fallback_dimensions(s1, s2) ==
    LET all == dimension_lines(table1_name, s1) \o dimension_lines(table2_name, s2)
    IN  IF all = <<>>
        THEN << SqlLine(Qualified(table1_name, <<"ENTITY_ID">>), <<"ENTITY_KEY">>,
                        "key synonyms", <<"Entity key dimension">>) >>
        ELSE SubSeq(all, 1, IF Len(all) <= 3 THEN Len(all) ELSE 3)

\* Lines 720-783.
generate_fallback_semantic_elements_with_schema(s1, s2) ==
    [facts_sql |-> fallback_facts(s1, s2),
     dimensions_sql |-> fallback_dimensions(s1, s2),
     ca_extension |->
         EscapedJson(
             [tables |-> << [name |-> table1_name, dimensions |-> <<>>, facts |-> <<>>],
                            [name |-> table2_name, dimensions |-> <<>>, facts |-> <<>>] >>,
              verified_queries |->
                  << [name |-> <<"Show all records">>,
                      question |-> <<"Show all records">>,
                      sql_from |-> table1_name] >>])]

\* generate_semantic_elements_with_schema(schema_name, table1_name,
\* table1_schema, table2_name, table2_schema, demo_data, company_name): the
\* outcome of the call for the LLM step `step`.
generate_semantic_elements_with_schema(s1, s2, step) ==
    LET fallback == Return(generate_fallback_semantic_elements_with_schema(s1, s2))
        warned == Warned(fallback, "Could not generate semantic elements with LLM")
    IN  IF step.query = "raises" THEN warned
        ELSE LET match == re_search_object(step.response)
             IN  IF ~match.matched THEN Warned(fallback, "none")
                 ELSE LET parsed == json_loads(match.group0)
                      IN  IF parsed.raised THEN warned
                          ELSE LET o == elements_from_llm(s1, s2, parsed.value)
                               IN  IF o.raised THEN warned ELSE Warned(o, "none")

\* The facts and dimensions an LLM answer is drawn from: qualified with a
\* table name, bare, qualified with the schema too, and one without its
\* synonyms and comment.
LlmFacts ==
    { Element(Qualified(table1_name, <<"ENTITY_ID">>), <<"ENTITY_ID">>),
      Element(Qualified(table2_name, <<"ENTITY_ID">>), <<"ENTITY_ID">>),
      Element(Qualified(table1_name, <<"AMOUNT">>), <<"AMOUNT">>),
      Element(<<"AMOUNT">>, <<"AMOUNT">>),
      Element(Qualified(<<"DEMO">>, Qualified(table1_name, <<"ENTITY_ID">>)),
              <<"ENTITY_ID">>),
      [keys |-> {"table_column", "name"},
       table_column |-> Qualified(table2_name, <<"ENTITY_ID">>),
       name |-> <<"ENTITY_ID">>] }

LlmDimensions ==
    { Element(Qualified(table2_name, <<"NAME">>), <<"NAME">>),
      Element(Qualified(table1_name, <<"CREATED_DATE">>), <<"CREATED_DATE">>) }

ElementObjects ==
    { [keys |-> {"facts", "dimensions", "sample_queries"},
       facts |-> f, dimensions |-> d,
       sample_queries |-> << <<"Which customers order most?">> >>] :
        f \in SeqsUpTo(LlmFacts, MaxFacts), d \in SeqsUpTo(LlmDimensions, 1) }
    \cup { [keys |-> {"dimensions"}, dimensions |-> d] :
             d \in SeqsUpTo(LlmDimensions, 1) }

ElementSteps ==
    {QueryRaises, Answer(TextNoObject), Answer(TextBadJson)}
    \cup { Answer(TextJson(e)) : e \in ElementObjects }

\* generate_semantic_elements and generate_fallback_semantic_elements build
\* their SQL as text: its tokens are the entry lines, "," and "\n".
LineTok(line) == [tok |-> "line", line |-> line]

CommaTok == [tok |-> ","]

NewlineTok == [tok |-> "\n"]

\* sql.rstrip('\n')
RECURSIVE rstrip_newlines(_)
rstrip_newlines(sql) ==
    IF sql # <<>> /\ sql[Len(sql)] = NewlineTok
    THEN rstrip_newlines(SubSeq(sql, 1, Len(sql) - 1)) ELSE sql

\* ",\n".join(lines)
join_lines(lines) ==
    LET F[k \in 0..Len(lines)] ==
            IF k = 0 THEN <<>>
            ELSE IF k = 1 THEN <<LineTok(lines[1])>>
            ELSE F[k - 1] \o <<CommaTok, NewlineTok, LineTok(lines[k])>>
    IN  F[Len(lines)]

\* Lines 453-465 (facts) and 475-487 (dimensions): the line of one element.
plain_element_sql(element) ==
    LET table_col_parts == split_dot(element.table_column)
        full_reference ==
            IF Len(table_col_parts) = 2
            THEN Qualified(table_col_parts[1], table_col_parts[2])
            ELSE element.table_column
    IN  SqlLine(full_reference, element.name, element.synonyms,
                escape_quotes(element.comment))

\* Lines 451-469 (facts) and 471-493 (dimensions): the comma is added when
\* the element is not equal to the last element of the list.
elements_sql_text(elements) ==
    LET F[k \in 0..Len(elements)] ==
            IF k = 0 THEN <<>>
            ELSE F[k - 1] \o <<LineTok(plain_element_sql(elements[k]))>>
                 \o (IF elements[k] # elements[Len(elements)]
                     THEN <<CommaTok>> ELSE <<>>)
                 \o <<NewlineTok>>
    IN  rstrip_newlines(F[Len(elements)])

\* Lines 445-498: the branch taken when the answer holds a JSON object.
plain_elements_from_llm(s1, s2, elements_data) ==
    LET facts == ElementsOf(elements_data, "facts")
        dimensions == ElementsOf(elements_data, "dimensions")
    IN  IF ~WellFormedElements(facts) \/ ~WellFormedElements(dimensions)
        THEN Raise("KeyError")
        ELSE LET ca_extension == generate_ca_extension(s1, s2, elements_data)
             IN  IF ca_extension.raised THEN ca_extension
                 ELSE Return([facts_sql |-> elements_sql_text(facts),
                              dimensions_sql |-> elements_sql_text(dimensions),
                              ca_extension |-> ca_extension.value])

\* Lines 518-524 for one table: its first numeric column other than ENTITY_ID.
first_other_numeric_fact(table_name, schema) ==
    LET hits == { k \in 1..Len(schema) :
                    /\ schema[k].type \in NumericTypes
                    /\ schema[k].name # <<"ENTITY_ID">> }
    IN  IF hits = {} THEN <<>>
        ELSE LET col == schema[CHOOSE k \in hits : \A j \in hits : k <= j]
             IN  << SqlLine(Qualified(table_name, col.name), col.name, FactSynonyms,
                            <<"Numeric value from", " ">> \o table_name) >>

\* Lines 510-526.
plain_fallback_facts(s1, s2) ==
    << SqlLine(Qualified(table1_name, <<"ENTITY_ID">>), <<"ENTITY_ID">>,
               entity_id_fact(table1_name).synonyms,
               entity_id_fact(table1_name).comment),
       SqlLine(Qualified(table2_name, <<"ENTITY_ID">>), <<"ENTITY_ID">>,
               entity_id_fact(table2_name).synonyms,
               entity_id_fact(table2_name).comment) >>
    \o first_other_numeric_fact(table1_name, s1)
    \o first_other_numeric_fact(table2_name, s2)

\* Lines 528-547: dimensions_list.
plain_fallback_dimensions(s1, s2) ==
    LET F[k \in 0..Len(s1) + Len(s2)] ==
            IF k = 0 THEN <<>>
            ELSE LET table_name == IF k <= Len(s1) THEN table1_name ELSE table2_name
                     col == IF k <= Len(s1) THEN s1[k] ELSE s2[k - Len(s1)]
                 IN  IF /\ Len(F[k - 1]) < 3      \* the breaks of lines 541-544
                        /\ col.type \in DimensionTypes
                        /\ col.name # <<"ENTITY_ID">>
                     THEN Append(F[k - 1],
                            SqlLine(Qualified(table_name, col.name), col.name,
                                    IF col.type \in {"DATE", "TIMESTAMP"}
                                    THEN "date/time synonyms" ELSE "text synonyms",
                                    (IF col.type \in {"DATE", "TIMESTAMP"}
                                     THEN <<"Date/time dimension from", " ">>
                                     ELSE <<"Text dimension from", " ">>) \o table_name))
                     ELSE F[k - 1]
        dimensions_list == F[Len(s1) + Len(s2)]
    IN  IF dimensions_list = <<>>
        THEN << SqlLine(Qualified(table1_name, <<"ENTITY_ID">>), <<"ENTITY_ID">>,
                        "key synonyms", <<"Entity key dimension">>) >>
        ELSE dimensions_list

\* Lines 507-569.
generate_fallback_semantic_elements(s1, s2) ==
    [facts_sql |-> join_lines(plain_fallback_facts(s1, s2)),
     dimensions_sql |-> join_lines(plain_fallback_dimensions(s1, s2)),
     ca_extension |->
         EscapedJson(
             [tables |-> << [name |-> table1_name, dimensions |-> <<>>, facts |-> <<>>],
                            [name |-> table2_name, dimensions |-> <<>>, facts |-> <<>>] >>,
              verified_queries |->
                  << [name |-> <<"Show all records">>,
                      question |-> <<"Show all records">>,
                      sql_from |-> table1_name] >>])]

\* generate_semantic_elements(table1_name, table1_schema, table2_name,
\* table2_schema, demo_data, company_name): the outcome of the call for the
\* LLM step `step`.
generate_semantic_elements(s1, s2, step) ==
    LET fallback == Return(generate_fallback_semantic_elements(s1, s2))
        warned == Warned(fallback, "Could not generate semantic elements with LLM")
    IN  IF step.query = "raises" THEN warned
        ELSE LET match == re_search_object(step.response)
             IN  IF ~match.matched THEN Warned(fallback, "none")
                 ELSE LET parsed == json_loads(match.group0)
                      IN  IF parsed.raised THEN warned
                          ELSE LET o == plain_elements_from_llm(s1, s2, parsed.value)
                               IN  IF o.raised THEN warned ELSE Warned(o, "none")

SchemaColumn(name, type) == [name |-> name, type |-> type]

\* The column lists get_table_schema returns for the tables of a demo.
TableSchemaChoices ==
    { << SchemaColumn(<<"ENTITY_ID">>, "NUMBER"), SchemaColumn(<<"NAME">>, "TEXT") >>,
      << SchemaColumn(<<"ORDER_ID">>, "NUMBER"), SchemaColumn(<<"ENTITY_ID">>, "NUMBER"),
         SchemaColumn(<<"CREATED_DATE">>, "DATE") >>,
      << SchemaColumn(<<"ENTITY_ID">>, "NUMBER(38,0)"),
         SchemaColumn(<<"AMOUNT">>, "FLOAT") >>,
      << SchemaColumn(<<"NAME">>, "TEXT") >> }

InitSem ==
    /\ pc = "start"
    /\ num_records = 0
    /\ join_key_values = NoneList
    /\ llm \in ElementSteps
    /\ schema_data = NoSchema
    /\ text_samples = <<>>
    /\ ret = NoRet
    /\ IdleTables
    /\ IdleWizard
    /\ table1_schema \in TableSchemaChoices
    /\ table2_schema \in TableSchemaChoices
    /\ semantic_elements = <<>>
    /\ example_queries = <<>>

CallGenerateSemanticElementsWithSchema ==
    /\ pc = "start"
    /\ ret' = generate_semantic_elements_with_schema(table1_schema, table2_schema, llm)
    /\ pc' = "generate_semantic_elements_with_schema"
    /\ UNCHANGED <<num_records, join_key_values, llm, schema_data, text_samples>>
    /\ UNCHANGED tablesVars
    /\ UNCHANGED viewVars
    /\ UNCHANGED wizardVars

CallGenerateSemanticElements ==
    /\ pc = "start"
    /\ ret' = generate_semantic_elements(table1_schema, table2_schema, llm)
    /\ pc' = "generate_semantic_elements"
    /\ UNCHANGED <<num_records, join_key_values, llm, schema_data, text_samples>>
    /\ UNCHANGED tablesVars
    /\ UNCHANGED viewVars
    /\ UNCHANGED wizardVars

NextSem ==
    \/ CallGenerateSemanticElementsWithSchema
    \/ CallGenerateSemanticElements

SpecSem == InitSem /\ [][NextSem]_vars

-----------------------------------------------------------------------------
(* The two fallback generators on their own: Init draws the two column     *)
(* lists, one action per generator applies it.                             *)

MaxSchemaCols == 3

\* The columns a table of a demo can have; ENTITY_ID is always created as a
\* NUMBER column.
FallbackColumns ==
    { SchemaColumn(<<"ENTITY_ID">>, "NUMBER"), SchemaColumn(<<"NAME">>, "TEXT"),
      SchemaColumn(<<"CREATED_DATE">>, "DATE"), SchemaColumn(<<"AMOUNT">>, "FLOAT") }

InitFallback ==
    /\ pc = "start"
    /\ num_records = 0
    /\ join_key_values = NoneList
    /\ llm = NoStep
    /\ schema_data = NoSchema
    /\ text_samples = <<>>
    /\ ret = NoRet
    /\ IdleTables
    /\ IdleWizard
    /\ table1_schema \in SeqsUpTo(FallbackColumns, MaxSchemaCols)
    /\ table2_schema \in SeqsUpTo(FallbackColumns, MaxSchemaCols)
    /\ semantic_elements = <<>>
    /\ example_queries = <<>>

CallGenerateFallbackSemanticElements ==
    /\ pc = "start"
    /\ ret' = Return(generate_fallback_semantic_elements(table1_schema, table2_schema))
    /\ pc' = "generate_fallback_semantic_elements"
    /\ UNCHANGED <<num_records, join_key_values, llm, schema_data, text_samples>>
    /\ UNCHANGED tablesVars
    /\ UNCHANGED viewVars
    /\ UNCHANGED wizardVars

CallGenerateFallbackSemanticElementsWithSchema ==
    /\ pc = "start"
    /\ ret' = Return(generate_fallback_semantic_elements_with_schema(
                         table1_schema, table2_schema))
    /\ pc' = "generate_fallback_semantic_elements_with_schema"
    /\ UNCHANGED <<num_records, join_key_values, llm, schema_data, text_samples>>
    /\ UNCHANGED tablesVars
    /\ UNCHANGED viewVars
    /\ UNCHANGED wizardVars

NextFallback ==
    \/ CallGenerateFallbackSemanticElements
    \/ CallGenerateFallbackSemanticElementsWithSchema

SpecFallback == InitFallback /\ [][NextFallback]_vars

-----------------------------------------------------------------------------
(* create_semantic_view and get_table_schema.  The procedure is cut at its *)
(* calls to the warehouse and to the LLM; `calls` records them in order.   *)

InfoRow(name, type) == [COLUMN_NAME |-> name, DATA_TYPE |-> type]

DescRow(name, type) == [name |-> name, type |-> type]

QueryFails == [raised |-> TRUE]

Rows(rows) == [raised |-> FALSE, rows |-> rows]

\* get_table_schema(schema_name, table_name), for the outcomes of its query on
\* INFORMATION_SCHEMA.COLUMNS and of its DESCRIBE TABLE.
get_table_schema(columns_query, describe_query) ==
    IF columns_query.raised THEN <<>>
    ELSE IF columns_query.rows = <<>>
    THEN IF describe_query.raised THEN <<>>
         ELSE [k \in 1..Len(describe_query.rows) |->
                  SchemaColumn(describe_query.rows[k].name,
                               describe_query.rows[k].type)]
    ELSE [k \in 1..Len(columns_query.rows) |->
             SchemaColumn(columns_query.rows[k].COLUMN_NAME,
                          columns_query.rows[k].DATA_TYPE)]

ColumnsQueryOutcomes ==
    { QueryFails, Rows(<<>>),
      Rows(<< InfoRow(<<"ENTITY_ID">>, "NUMBER"), InfoRow(<<"NAME">>, "TEXT") >>) }

DescribeOutcomes ==
    { QueryFails, Rows(<<>>),
      Rows(<< DescRow(<<"ENTITY_ID">>, "NUMBER(38,0)"),
              DescRow(<<"AMOUNT">>, "FLOAT") >>) }

\* The check with "and" for "or": only two empty column lists stop the view.
schemas_missing_both(s1, s2) == s1 = <<>> /\ s2 = <<>>

\* Line 264: not table1_schema or not table2_schema.
schemas_missing(s1, s2) == s1 = <<>> \/ s2 = <<>>

NoneValue == [none |-> TRUE]

\* get_fallback_queries is not defined in the module: the call raises
\* NameError unless the namespace the module runs in supplies the function.
get_fallback_queries == { Return(<<"fallback questions">>), Raise("NameError") }

\* generate_semantic_view_queries, lines 900-944.
generate_semantic_view_queries(step) ==
    IF step.query = "raises" THEN get_fallback_queries
    ELSE LET match == re_search_array(step.response)
         IN  IF ~match.matched THEN get_fallback_queries
             ELSE LET parsed == json_loads_array(match.group0)
                  IN  IF parsed.raised THEN get_fallback_queries ELSE {parsed}

QuerySteps ==
    { QueryRaises, Answer(TextNoArray), Answer(TextBadArray),
      Answer(TextArray(<<TextV(<<"Which customers order most?">>)>>)) }

\* The handler of lines 313-320.
ViewHandlerReturnsNone ==
    /\ pc' = "done"
    /\ ret' = Return(NoneValue)
    /\ st_messages' = st_messages \cup {"Error creating semantic view"}

\* Lines 222-252: the names, show_existing_tables and the two probes, none of
\* which lets an exception out.
ProbeTables ==
    /\ pc = "start"
    /\ \E listed, probe1, probe2 \in BOOLEAN :
         /\ calls' = calls \o
                << [fn |-> "show_existing_tables", raised |-> ~listed],
                   [fn |-> "SELECT COUNT(*)", table |-> table1_name, raised |-> ~probe1],
                   [fn |-> "SELECT COUNT(*)", table |-> table2_name, raised |-> ~probe2] >>
         /\ st_messages' = st_messages
                \cup (IF probe1 THEN {} ELSE {"Cannot access table 1"})
                \cup (IF probe2 THEN {} ELSE {"Cannot access table 2"})
    /\ pc' = "get_table1_schema"
    /\ UNCHANGED <<num_records, join_key_values, llm, schema_data, text_samples, ret>>
    /\ UNCHANGED <<demo_data, enable_search_service, enable_semantic_view,
                   table1_entity_ids, table2_entity_ids, table_idx, results,
                   structured_tables_data, unstructured_table_info>>
    /\ UNCHANGED viewVars
    /\ UNCHANGED wizardVars

\* Line 260.
GetTable1Schema ==
    /\ pc = "get_table1_schema"
    /\ \E columns_query \in ColumnsQueryOutcomes, describe_query \in DescribeOutcomes :
         /\ table1_schema' = get_table_schema(columns_query, describe_query)
         /\ calls' = Append(calls, [fn |-> "get_table_schema", table |-> table1_name,
                                    columns_query |-> columns_query,
                                    returned |-> table1_schema'])
    /\ pc' = "get_table2_schema"
    /\ UNCHANGED <<num_records, join_key_values, llm, schema_data, text_samples, ret>>
    /\ UNCHANGED <<demo_data, enable_search_service, enable_semantic_view,
                   table1_entity_ids, table2_entity_ids, table_idx, results,
                   structured_tables_data, unstructured_table_info, st_messages>>
    /\ UNCHANGED <<table2_schema, semantic_elements, example_queries>>
    /\ UNCHANGED wizardVars

\* Line 261.
GetTable2Schema ==
    /\ pc = "get_table2_schema"
    /\ \E columns_query \in ColumnsQueryOutcomes, describe_query \in DescribeOutcomes :
         /\ table2_schema' = get_table_schema(columns_query, describe_query)
         /\ calls' = Append(calls, [fn |-> "get_table_schema", table |-> table2_name,
                                    columns_query |-> columns_query,
                                    returned |-> table2_schema'])
    /\ pc' = "check"
    /\ UNCHANGED <<num_records, join_key_values, llm, schema_data, text_samples, ret>>
    /\ UNCHANGED <<demo_data, enable_search_service, enable_semantic_view,
                   table1_entity_ids, table2_entity_ids, table_idx, results,
                   structured_tables_data, unstructured_table_info, st_messages>>
    /\ UNCHANGED <<table1_schema, semantic_elements, example_queries>>
    /\ UNCHANGED wizardVars

\* Lines 264-269.
ReturnNoneWithoutSchemas ==
    /\ pc = "check"
    /\ schemas_missing(table1_schema, table2_schema)
    /\ st_messages' = st_messages \cup {"Could not retrieve schema for tables"}
    /\ ret' = Return(NoneValue)
    /\ pc' = "done"
    /\ UNCHANGED <<num_records, join_key_values, llm, schema_data, text_samples>>
    /\ UNCHANGED <<demo_data, enable_search_service, enable_semantic_view,
                   table1_entity_ids, table2_entity_ids, table_idx, results,
                   structured_tables_data, unstructured_table_info, calls>>
    /\ UNCHANGED viewVars
    /\ UNCHANGED wizardVars

\* Lines 272-274.
GenerateSemanticElements ==
    /\ pc = "check"
    /\ ~schemas_missing(table1_schema, table2_schema)
    /\ \E step \in ElementSteps :
         /\ semantic_elements' =
                << generate_semantic_elements_with_schema(
                       table1_schema, table2_schema, step).value >>
         /\ calls' = Append(calls, [fn |-> "generate_semantic_elements_with_schema",
                                    step |-> step])
    /\ pc' = "queries"
    /\ UNCHANGED <<num_records, join_key_values, llm, schema_data, text_samples, ret>>
    /\ UNCHANGED <<demo_data, enable_search_service, enable_semantic_view,
                   table1_entity_ids, table2_entity_ids, table_idx, results,
                   structured_tables_data, unstructured_table_info, st_messages>>
    /\ UNCHANGED <<table1_schema, table2_schema, example_queries>>
    /\ UNCHANGED wizardVars

\* Line 277; a NameError of the fallback reaches the handler.
GenerateSemanticViewQueries ==
    /\ pc = "queries"
    /\ \E step \in QuerySteps : \E o \in generate_semantic_view_queries(step) :
         /\ calls' = Append(calls, [fn |-> "generate_semantic_view_queries",
                                    step |-> step])
         /\ IF o.raised
            THEN /\ ViewHandlerReturnsNone
                 /\ UNCHANGED example_queries
            ELSE /\ example_queries' = o.value
                 /\ pc' = "create"
                 /\ UNCHANGED <<ret, st_messages>>
    /\ UNCHANGED <<num_records, join_key_values, llm, schema_data, text_samples>>
    /\ UNCHANGED <<demo_data, enable_search_service, enable_semantic_view,
                   table1_entity_ids, table2_entity_ids, table_idx, results,
                   structured_tables_data, unstructured_table_info>>
    /\ UNCHANGED <<table1_schema, table2_schema, semantic_elements>>
    /\ UNCHANGED wizardVars

\* Lines 280-311: the statement is issued; it succeeds or raises.
CreateSemanticView ==
    /\ pc = "create"
    /\ \E raised \in BOOLEAN :
         /\ calls' = Append(calls, [fn |-> "CREATE OR REPLACE SEMANTIC VIEW",
                                    facts |-> semantic_elements[1].facts_sql,
                                    dimensions |-> semantic_elements[1].dimensions_sql,
                                    raised |-> raised])
         /\ IF raised
            THEN ViewHandlerReturnsNone
            ELSE /\ ret' = Return([view_name |-> "SEMANTIC_VIEW",
                                   example_queries |-> example_queries,
                                   join_key |-> "ENTITY_ID"])
                 /\ pc' = "done"
                 /\ UNCHANGED st_messages
    /\ UNCHANGED <<num_records, join_key_values, llm, schema_data, text_samples>>
    /\ UNCHANGED <<demo_data, enable_search_service, enable_semantic_view,
                   table1_entity_ids, table2_entity_ids, table_idx, results,
                   structured_tables_data, unstructured_table_info>>
    /\ UNCHANGED viewVars
    /\ UNCHANGED wizardVars

InitView ==
    /\ pc = "start"
    /\ num_records = 0
    /\ join_key_values = NoneList
    /\ llm = NoStep
    /\ schema_data = NoSchema
    /\ text_samples = <<>>
    /\ ret = NoRet
    /\ IdleTables
    /\ IdleWizard
    /\ IdleView

NextView ==
    \/ ProbeTables
    \/ GetTable1Schema
    \/ GetTable2Schema
    \/ ReturnNoneWithoutSchemas
    \/ GenerateSemanticElements
    \/ GenerateSemanticViewQueries
    \/ CreateSemanticView

SpecView == InitView /\ [][NextView]_vars

-----------------------------------------------------------------------------
(* The branding wizard: main, fetch_brand_data, show_brand_options and      *)
(* show_final_page of streamlit_app.py, in its two variants.  A step is one *)
(* interaction of the user: the script run it causes, up to the st.rerun()  *)
(* that ends it, and the run that st.rerun() starts at once.  session_state *)
(* is a function from the keys present to their values.                     *)

Assign(ss, key, value) == (key :> value) @@ ss

\* if key not in st.session_state: st.session_state[key] = value
Setdefault(ss, key, value) == IF key \in DOMAIN ss THEN ss ELSE ss @@ (key :> value)

\* del st.session_state[key] for the keys that are present
Delete(ss, keys) == [k \in (DOMAIN ss) \ keys |-> ss[k]]

\* main, lines 14-25.
main_init(ss) ==
    Setdefault(Setdefault(Setdefault(Setdefault(Setdefault(Setdefault(ss,
        "page", "form"),
        "brand_data", NoneValue),
        "selected_logo", NoneValue),
        "selected_color", NoneValue),
        "name", NoneValue),
        "generated_file", NoneValue)

\* A run of the script in which no button is pressed: the page is drawn and
\* session_state keeps its values.
Rerun(ss) == main_init(ss)

Names == {"", "Acme"}

CompanyUrls == {"", "acme.com"}

TeamMembers == {"", "sales"}

MainVerticals == {"Retail", "Health Services"}

\* sub_vertical: a choice of the second selectbox, None when it is not shown.
SubVerticals(which, main_vertical) ==
    IF main_vertical = "Health Services"
    THEN IF which = "hosted"
         THEN {"Cost of Care", "Genomics"}
         ELSE {"Clinical Trials", "Genomics"}
    ELSE {NoneValue}

\* The submit accepted whatever the fields hold.
required_fields_unchecked(name, company_url, team_members, main_vertical) == TRUE

\* Line 55, negated.
required_fields_filled(name, company_url, team_members, main_vertical) ==
    name # "" /\ company_url # "" /\ team_members # "" /\ main_vertical # ""

\* The answers of the Brandfetch API: requests.get raises, or returns a
\* status code and, with 200, the brand's JSON (logos and colors by their
\* src and hex).
BrandData ==
    { [logos |-> <<"logo1.png", "logo2.png">>, colors |-> <<"#29b5e8">>],
      [logos |-> <<>>, colors |-> <<>>] }

BrandfetchOutcomes ==
    { [raised |-> TRUE], [raised |-> FALSE, status_code |-> 404] }
    \cup { [raised |-> FALSE, status_code |-> 200, json |-> data] : data \in BrandData }

\* call_raven_agent: the questions, or the one-line error list; never raises.
RavenOutcomes == { <<"question 1", "question 2">>, <<"API error: 500">> }

\* st.radio(label, options): the option chosen, None without options.
RadioChoices(options) ==
    IF options = <<>> THEN {NoneValue}
    ELSE { options[k] : k \in 1..Len(options) }

SubmitEvent(name, company_url, team_members, main_vertical) ==
    [event |-> "submit", name |-> name, company_url |-> company_url,
     team_members |-> team_members, main_vertical |-> main_vertical]

\* streamlit_app.py, main lines 27-61 with fetch_brand_data: Submit pressed on
\* the form page.
SubmitForm ==
    /\ variant = "hosted"
    /\ session_state.page = "form"
    /\ \E name \in Names, company_url \in CompanyUrls, team_members \in TeamMembers,
          main_vertical \in MainVerticals, response \in BrandfetchOutcomes :
       \E sub_vertical \in SubVerticals(variant, main_vertical) :
         /\ last_event' = SubmitEvent(name, company_url, team_members, main_vertical)
         /\ session_state' =
              IF ~required_fields_filled(name, company_url, team_members, main_vertical)
              THEN main_init(session_state)                 \* st.error; return
              ELSE LET stored == Assign(Assign(Assign(main_init(session_state),
                                     "name", name),
                                     "main_vertical", main_vertical),
                                     "sub_vertical", sub_vertical)
                   IN  IF response.raised THEN stored      \* the run ends in the exception
                       ELSE IF response.status_code = 200
                       THEN Rerun(Assign(Assign(stored, "brand_data", response.json),
                                         "page", "select_brand"))
                       ELSE stored                          \* st.error
    /\ UNCHANGED variant
    /\ UNCHANGED frameVars
    /\ UNCHANGED tablesVars
    /\ UNCHANGED viewVars

\* Streamlit/self hosted/streamlit_app.py, main lines 31-74 with
\* fetch_brand_data and call_raven_agent: Submit pressed on the form page.
SubmitFormSelfHosted ==
    /\ variant = "self hosted"
    /\ session_state.page = "form"
    /\ \E name \in Names, company_url \in CompanyUrls, team_members \in TeamMembers,
          main_vertical \in MainVerticals, response \in BrandfetchOutcomes,
          questions \in RavenOutcomes :
       \E sub_vertical \in SubVerticals(variant, main_vertical) :
         /\ last_event' = SubmitEvent(name, company_url, team_members, main_vertical)
         /\ session_state' =
              IF ~required_fields_filled(name, company_url, team_members, main_vertical)
              THEN main_init(session_state)
              ELSE LET stored == Assign(Assign(Assign(main_init(session_state),
                                     "name", name),
                                     "main_vertical", main_vertical),
                                     "sub_vertical", sub_vertical)
                       fetched == IF response.status_code = 200
                                  THEN Assign(stored, "brand_data", response.json)
                                  ELSE stored
                   IN  IF response.raised THEN stored
                       ELSE Rerun(Assign(Assign(fetched, "raven_questions", questions),
                                         "page", "select_brand"))
    /\ UNCHANGED variant
    /\ UNCHANGED frameVars
    /\ UNCHANGED tablesVars
    /\ UNCHANGED viewVars

\* show_brand_options (the same in both variants): Finalize Selection pressed.
\* The button is drawn only if brand_data is a dict; generate_branded_app
\* writes the file or raises.
FinalizeSelection ==
    /\ session_state.page = "select_brand"
    /\ session_state.brand_data # NoneValue
    /\ \E selected_logo \in RadioChoices(session_state.brand_data.logos),
          selected_color \in RadioChoices(session_state.brand_data.colors),
          written \in BOOLEAN :
         LET chosen == Assign(Assign(main_init(session_state),
                           "selected_logo", selected_logo),
                           "selected_color", selected_color)
         IN  /\ last_event' = [event |-> "finalize", written |-> written]
             /\ session_state' =
                  IF ~written THEN chosen
                  ELSE Rerun(Assign(Assign(chosen,
                           "generated_file",
                           [file |-> "brand_landing_app", name |-> session_state.name]),
                           "page", "final"))
    /\ UNCHANGED variant
    /\ UNCHANGED frameVars
    /\ UNCHANGED tablesVars
    /\ UNCHANGED viewVars

\* show_final_page (the same in both variants): Start Over pressed.
StartOver ==
    /\ session_state.page = "final"
    /\ last_event' = [event |-> "start over"]
    /\ session_state' =
           Rerun(Delete(main_init(session_state),
                        {"page", "brand_data", "selected_logo", "selected_color",
                         "logo_radio", "color_radio", "name", "generated_file"}))
    /\ UNCHANGED variant
    /\ UNCHANGED frameVars
    /\ UNCHANGED tablesVars
    /\ UNCHANGED viewVars

\* The first run of the script in a new session.
InitWizard ==
    /\ pc = "start"
    /\ num_records = 0
    /\ join_key_values = NoneList
    /\ llm = NoStep
    /\ schema_data = NoSchema
    /\ text_samples = <<>>
    /\ ret = NoRet
    /\ IdleTables
    /\ IdleView
    /\ variant \in {"hosted", "self hosted"}
    /\ session_state = main_init(<<>>)
    /\ last_event = [event |-> "open"]

NextWizard ==
    \/ SubmitForm
    \/ SubmitFormSelfHosted
    \/ FinalizeSelection
    \/ StartOver

SpecWizard == InitWizard /\ [][NextWizard]_vars

-----------------------------------------------------------------------------
(* Claims about the data generators (checked under SpecGen).               *)

EnoughJoinKeys ==
    join_key_values.is_none \/ Len(join_key_values.items) >= num_records

\* The column names of the fixed fallback dataset of create_sample_data.
FallbackColumnNames ==
    {"ID", "NAME", "CATEGORY", "VALUE", "STATUS", "CREATED_DATE",
     "MODIFIED_TIMESTAMP"}
    \cup (IF join_key_values.is_none THEN {} ELSE {"ENTITY_ID"})

IsFallbackDataset(data) ==
    /\ data = create_sample_data(num_records, join_key_values).value
    /\ \A k \in 1..Len(data) : DOMAIN data[k] = FallbackColumnNames

ColumnWellFormed(col) == {"name", "type"} \subseteq col.keys

\* The LLM step of the call failed: the query raised, the answer held no
\* {...} or no JSON, the JSON lacked 'columns' or a column lacked 'name' or
\* 'type', or row generation raised (a handler warned).
LlmStepFailed ==
    \/ llm.query = "raises"
    \/ /\ llm.query = "ok"
       /\ \/ llm.response.object # "json"
          \/ "columns" \notin schema_data.keys
          \/ /\ num_records >= 1
             /\ \E k \in 1..Len(schema_data.columns) :
                    ~ColumnWellFormed(schema_data.columns[k])
          \/ ret.warning # "none"

\* C1: generate_realistic_content_with_llm never propagates an exception; on
\* every failure of the LLM step it returns the fallback dataset of
\* create_sample_data, and in every case it returns exactly num_records
\* records, provided join_key_values is None or has at least num_records
\* entries.
C1_NeverPropagates ==
    (pc = "generate_realistic_content_with_llm" /\ EnoughJoinKeys) =>
        /\ ~ret.raised
        /\ Len(ret.value) = num_records
        /\ LlmStepFailed => IsFallbackDataset(ret.value)

\* C1's case: a parsed schema whose row generation raised, answered with the
\* fallback rows.
C1_Witness ==
    /\ pc = "generate_realistic_content_with_llm"
    /\ EnoughJoinKeys
    /\ num_records = MaxRecords
    /\ llm.query = "ok"
    /\ llm.response.object = "json"
    /\ "columns" \in schema_data.keys
    /\ \A k \in 1..Len(schema_data.columns) : ColumnWellFormed(schema_data.columns[k])
    /\ ~ret.raised
    /\ ret.warning = "Error generating schema"
    /\ Len(ret.value) = MaxRecords

\* The column names a schema declares.
DeclaredNames(schema) ==
    { schema.columns[k].name : k \in 1..Len(schema.columns) }

\* C3: for every schema with a 'columns' list (each column with a name and a
\* type) generate_data_from_schema returns exactly num_records records, each
\* with one entry for every declared column name.
C3_RowsMaterialized ==
    ( /\ pc = "generate_data_from_schema"
      /\ "columns" \in schema_data.keys
      /\ \A k \in 1..Len(schema_data.columns) :
             ColumnWellFormed(schema_data.columns[k])
      /\ EnoughJoinKeys ) =>
        /\ ~ret.raised
        /\ Len(ret.value) = num_records
        /\ \A k \in 1..Len(ret.value) :
               DOMAIN ret.value[k] = DeclaredNames(schema_data)

\* A NUMBER/INTEGER/INT column whose name holds no 'ID' and whose
\* sample_values list is not empty.
PlainNumberColumnWithSamples(col) ==
    /\ ColumnWellFormed(col)
    /\ Upper(col.type) \in {"NUMBER", "INTEGER", "INT"}
    /\ ~ContainsID(col.name)
    /\ "sample_values" \in col.keys
    /\ col.sample_values # <<>>

\* C15: for columns of type NUMBER/INTEGER/INT whose name does not contain
\* 'ID', generate_data_from_schema assigns an integer in every record for
\* every non-empty sample_values list, whatever its entries; it does not
\* raise because of the content of sample_values.
C15_IntegerFromAnySamples ==
    ( /\ pc = "generate_data_from_schema"
      /\ "columns" \in schema_data.keys
      /\ \A k \in 1..Len(schema_data.columns) :
             PlainNumberColumnWithSamples(schema_data.columns[k]) ) =>
        /\ ~ret.raised
        /\ \A i \in 1..Len(ret.value) :
             \A k \in 1..Len(schema_data.columns) :
                 ret.value[i][schema_data.columns[k].name].t = "int"

\* What holds of such columns: with a digit string or a non-negative integer
\* among the samples, every record gets an integer drawn from those.
C15_IntegerFromDigitSamples ==
    ( /\ pc = "generate_data_from_schema"
      /\ "columns" \in schema_data.keys
      /\ \A k \in 1..Len(schema_data.columns) :
             /\ PlainNumberColumnWithSamples(schema_data.columns[k])
             /\ DigitSamples(schema_data.columns[k].sample_values) # <<>> ) =>
        /\ ~ret.raised
        /\ Len(ret.value) = num_records
        /\ \A i \in 1..Len(ret.value) :
             \A k \in 1..Len(schema_data.columns) :
                 ret.value[i][schema_data.columns[k].name].t = "int"

-----------------------------------------------------------------------------
(* Claims about generate_unstructured_content_with_llm (checked under      *)
(* SpecUnstructured).                                                       *)

\* Every CHUNK_TEXT is one of the ten fallback texts.
FromFallbackTexts(data) ==
    \A k \in 1..Len(data) :
        \E m \in 1..Len(fallback_texts) :
            data[k].CHUNK_TEXT = fallback_texts[m].tokens

\* chunk is a stretch of text, or such a stretch with a full stop added, with
\* the blanks at its ends removed.
DerivedFromText(chunk, text) ==
    \E a \in 1..(Len(text) + 1) : \E b \in 0..Len(text) :
        \/ chunk = strip(SubSeq(text, a, b))
        \/ chunk = strip(Append(SubSeq(text, a, b), "."))

DerivedFromLlmSamples(data) ==
    \A k \in 1..Len(data) :
        \E m \in 1..Len(text_samples) :
            /\ text_samples[m].t = "str"
            /\ DerivedFromText(data[k].CHUNK_TEXT, text_samples[m].tokens)

\* The cases the claim names: the query raised, no [...] array, no JSON, an
\* empty array, an array of elements that are not strings.
ContentStepFailed ==
    \/ llm.query = "raises"
    \/ /\ llm.query = "ok"
       /\ \/ llm.response.array # "json"
          \/ text_samples = <<>>
          \/ \A m \in 1..Len(text_samples) : text_samples[m].t # "str"

ContentAllStrings ==
    /\ llm.query = "ok"
    /\ llm.response.array = "json"
    /\ text_samples # <<>>
    /\ \A m \in 1..Len(text_samples) : text_samples[m].t = "str"

C2_LlmChunkReached ==
    /\ pc = "generate_unstructured_content_with_llm"
    /\ ContentAllStrings
    /\ \E k \in 1..Len(ret.value) :
           ret.value[k].CHUNK_TEXT = <<"x", ".", " ", "y", ".">>

-----------------------------------------------------------------------------
(* Claims about create_tables_in_snowflake (checked under Spec, and under  *)
(* SpecIds for the ENTITY_ID lists).                                        *)

CallsOf(fn) == { k \in 1..Len(calls) : calls[k].fn = fn }

TableCalls ==
    CallsOf("generate_realistic_content_with_llm")
    \cup CallsOf("create_structured_table_with_constraints")
    \cup CallsOf("generate_unstructured_content_with_llm")
    \cup CallsOf("save_as_table")

SomethingRaised ==
    \E k \in CallsOf("CREATE SCHEMA") \cup CallsOf("save_as_table") : calls[k].raised

\* The tables of demo_data the loop has classified so far.
ClassifiedStructured == Len(structured_tables_data)

ClassifiedUnstructured == IF unstructured_table_info = <<>> THEN 0 ELSE 1

\* Both optional steps come after every table of demo_data, at most once each,
\* the semantic view before the search service.
C4_Order ==
    /\ Cardinality(CallsOf("create_semantic_view")) <= 1
    /\ Cardinality(CallsOf("create_cortex_search_service")) <= 1
    /\ \A k \in CallsOf("create_semantic_view") \cup CallsOf("create_cortex_search_service") :
         /\ table_idx = Len(demo_data)
         /\ \A j \in TableCalls : j < k
    /\ \A j \in CallsOf("create_semantic_view") :
         \A k \in CallsOf("create_cortex_search_service") : j < k

\* C4 (as amended): create_semantic_view is called only if enable_semantic_view
\* is true and at least two tables were classified as structured, and
\* create_cortex_search_service only if enable_search_service is true and a
\* table was classified as unstructured; when the procedure ends without
\* having raised, each is called exactly when its condition holds; both come
\* only after every table of demo_data has been processed, the semantic view
\* before the search service.
C4_GatedUnlessRaised ==
    /\ CallsOf("create_semantic_view") # {} =>
           enable_semantic_view /\ ClassifiedStructured >= 2
    /\ CallsOf("create_cortex_search_service") # {} =>
           enable_search_service /\ ClassifiedUnstructured >= 1
    /\ (pc = "done" /\ ~SomethingRaised) =>
           /\ (enable_semantic_view /\ ClassifiedStructured >= 2) =>
                  CallsOf("create_semantic_view") # {}
           /\ (enable_search_service /\ ClassifiedUnstructured >= 1) =>
                  CallsOf("create_cortex_search_service") # {}
    /\ C4_Order

\* C4's case: a run that classified two structured tables and an unstructured
\* one with both options on, and called the semantic view, then the search
\* service.
C4_Witness ==
    /\ pc = "done"
    /\ ~SomethingRaised
    /\ ClassifiedStructured >= 2
    /\ ClassifiedUnstructured >= 1
    /\ CallsOf("create_semantic_view") # {}
    /\ CallsOf("create_cortex_search_service") # {}

\* C4 as stated: when the procedure has ended, create_semantic_view was called
\* if and only if enable_semantic_view is true and at least two tables were
\* classified as structured, and create_cortex_search_service if and only if
\* enable_search_service is true and a table was classified as unstructured.
C4_GatedIff ==
    pc = "done" =>
        /\ CallsOf("create_semantic_view") # {} <=>
               (enable_semantic_view /\ ClassifiedStructured >= 2)
        /\ CallsOf("create_cortex_search_service") # {} <=>
               (enable_search_service /\ ClassifiedUnstructured >= 1)
        /\ C4_Order

\* The ID list handed to data generation for the table stored under key.
HandedIds(key) ==
    LET k == CHOOSE k \in CallsOf("generate_realistic_content_with_llm") :
                 calls[k].table = key
    IN  calls[k].ids

\* The LLM step of the generation call for the table stored under key.
HandedStep(key) ==
    LET k == CHOOSE k \in CallsOf("generate_realistic_content_with_llm") :
                 calls[k].table = key
    IN  calls[k].step

SchemaWithEntityId(step) ==
    /\ step.query = "ok"
    /\ step.response.object = "json"
    /\ "columns" \in step.response.data.keys
    /\ "ENTITY_ID" \in DeclaredNames(step.response.data)

HasEntityId(record) == "ENTITY_ID" \in DOMAIN record

FromCreateSampleData(data, ids) ==
    data = create_sample_data(num_records, SomeList(ids)).value

\* C5: record i of a structured table's dataset, produced by
\* generate_data_from_schema for a schema with an ENTITY_ID column or by
\* create_sample_data, carries ENTITY_ID = join_key_values[i], and with the ID
\* lists built by create_tables_in_snowflake no two records of one structured
\* table share an ENTITY_ID.
C5_EntityIdsSequentialUnique ==
    \A t \in 1..Len(structured_tables_data) :
        LET data == structured_tables_data[t].data
            ids == HandedIds(structured_tables_data[t].key)
            step == HandedStep(structured_tables_data[t].key)
        IN  /\ (SchemaWithEntityId(step) \/ FromCreateSampleData(data, ids)) =>
                   \A i \in 1..Len(data) :
                       HasEntityId(data[i]) /\ data[i].ENTITY_ID = IntV(ids[i])
            /\ \A i, j \in 1..Len(data) :
                   (i # j /\ HasEntityId(data[i]) /\ HasEntityId(data[j])) =>
                       data[i].ENTITY_ID # data[j].ENTITY_ID

\* C5's case: a table of MaxRecords records generated from an LLM schema with
\* an ENTITY_ID column, and one filled by create_sample_data.
C5_Witness ==
    /\ num_records = MaxRecords
    /\ Len(structured_tables_data) = 2
    /\ SchemaWithEntityId(HandedStep(structured_tables_data[1].key))
    /\ ~FromCreateSampleData(structured_tables_data[1].data,
                             HandedIds(structured_tables_data[1].key))
    /\ FromCreateSampleData(structured_tables_data[2].data,
                            HandedIds(structured_tables_data[2].key))
    /\ Len(structured_tables_data[1].data) = MaxRecords
    /\ Len(structured_tables_data[2].data) = MaxRecords

Range(list) == { list[k] : k \in 1..Len(list) }

\* C6: with two structured tables and num_records >= 1, the ENTITY_ID lists
\* handed to data generation for the two tables each hold exactly num_records
\* pairwise-distinct integers of 1..2*num_records, and the two lists share
\* exactly int(0.7*num_records) values.
C6_SeventyPercentOverlap ==
    (Len(structured_tables_data) = 2 /\ num_records >= 1) =>
        LET ids1 == HandedIds(structured_tables_data[1].key)
            ids2 == HandedIds(structured_tables_data[2].key)
        IN  /\ Len(ids1) = num_records
            /\ Len(ids2) = num_records
            /\ Cardinality(Range(ids1)) = num_records
            /\ Cardinality(Range(ids2)) = num_records
            /\ Range(ids1) \cup Range(ids2) \subseteq 1..(2 * num_records)
            /\ Cardinality(Range(ids1) \cap Range(ids2)) = overlap_size(num_records)

\* C7: whenever the message that structured tables were created with unique
\* ENTITY_ID join keys has been emitted, every record of every structured
\* table has an ENTITY_ID, the one its position takes from the table's ID
\* list.
C7_JoinKeysPresent ==
    "Structured tables created with unique ENTITY_ID join keys" \in st_messages =>
        \A t \in 1..Len(structured_tables_data) :
            LET data == structured_tables_data[t].data
                ids == HandedIds(structured_tables_data[t].key)
            IN  \A i \in 1..Len(data) :
                    HasEntityId(data[i]) /\ data[i].ENTITY_ID = IntV(ids[i])

\* C10: create_tables_in_snowflake never raises: when it has ended it has
\* returned the empty list if a step raised, and the accumulated results list
\* otherwise.
C10_NeverRaises ==
    /\ ~ret.raised
    /\ pc = "done" =>
           ret = IF SomethingRaised THEN Return(<<>>) ELSE Return(results)

\* C10's case: the unstructured table write raised after tables had been
\* created, and the empty list came back.
C10_Witness ==
    /\ pc = "done"
    /\ \E k \in CallsOf("save_as_table") : calls[k].raised
    /\ results # <<>>
    /\ ret = Return(<<>>)

-----------------------------------------------------------------------------
(* Claims about create_semantic_view (checked under SpecView).             *)

SchemaCallsFor(table_name) ==
    { k \in CallsOf("get_table_schema") : calls[k].table = table_name }

LlmCalls ==
    CallsOf("generate_semantic_elements_with_schema")
    \cup CallsOf("generate_semantic_view_queries")

\* C8: the CREATE OR REPLACE SEMANTIC VIEW statement is issued only after
\* get_table_schema returned a non-empty column list for both tables; once
\* either column list came back empty (its queries raising included) neither
\* the statement nor an LLM call for semantic elements or example queries is
\* ever made, and the procedure returns None.
C8_ViewOnlyWithBothSchemas ==
    /\ \A c \in CallsOf("CREATE OR REPLACE SEMANTIC VIEW") :
         /\ \E k \in SchemaCallsFor(table1_name) : k < c /\ calls[k].returned # <<>>
         /\ \E k \in SchemaCallsFor(table2_name) : k < c /\ calls[k].returned # <<>>
    /\ (\E k \in CallsOf("get_table_schema") : calls[k].returned = <<>>) =>
         /\ CallsOf("CREATE OR REPLACE SEMANTIC VIEW") = {}
         /\ LlmCalls = {}
         /\ pc = "done" => ret = Return(NoneValue)

\* C8's case: the second table's column query raised after the first table's
\* columns had been found, and None came back.
C8_Witness ==
    /\ pc = "done"
    /\ \E k \in SchemaCallsFor(table1_name) : calls[k].returned # <<>>
    /\ \E k \in SchemaCallsFor(table2_name) :
         calls[k].columns_query.raised /\ calls[k].returned = <<>>
    /\ ret = Return(NoneValue)

\* The other case of C8: the statement issued once DESCRIBE TABLE had supplied
\* the columns INFORMATION_SCHEMA did not list.
C8_StatementReached ==
    /\ pc = "done"
    /\ CallsOf("CREATE OR REPLACE SEMANTIC VIEW") # {}
    /\ \E k \in CallsOf("get_table_schema") :
         /\ ~calls[k].columns_query.raised
         /\ calls[k].columns_query.rows = <<>>
         /\ calls[k].returned # <<>>

\* C11: the CREATE OR REPLACE SEMANTIC VIEW statement is issued only if both
\* SELECT COUNT(*) accessibility probes on the two tables succeeded.
C11_ProbesGateView ==
    CallsOf("CREATE OR REPLACE SEMANTIC VIEW") # {} =>
        \A k \in CallsOf("SELECT COUNT(*)") : ~calls[k].raised

-----------------------------------------------------------------------------
(* Claims about generate_semantic_elements_with_schema (checked under      *)
(* SpecSem).                                                                *)

HasFactOn(facts_sql, table_name) ==
    \E k \in 1..Len(facts_sql) :
        facts_sql[k].full_reference = Qualified(table_name, <<"ENTITY_ID">>)

\* C9: for every LLM outcome the facts SQL that
\* generate_semantic_elements_with_schema returns holds a fact on
\* <table1_name>.ENTITY_ID and a fact on <table2_name>.ENTITY_ID.
C9_BothEntityIdFacts ==
    pc = "generate_semantic_elements_with_schema" =>
        /\ ~ret.raised
        /\ HasFactOn(ret.value.facts_sql, table1_name)
        /\ HasFactOn(ret.value.facts_sql, table2_name)

\* The part of C9 that holds: when the LLM's JSON object is used, both
\* ENTITY_ID facts are in the facts SQL.
C9_LlmPathHasBoth ==
    ( /\ pc = "generate_semantic_elements_with_schema"
      /\ llm.query = "ok"
      /\ llm.response.object = "json"
      /\ ~elements_from_llm(table1_schema, table2_schema, llm.response.data).raised ) =>
        /\ HasFactOn(ret.value.facts_sql, table1_name)
        /\ HasFactOn(ret.value.facts_sql, table2_name)

\* The entries of an SQL text are well separated: a comma after every entry
\* line but the last, none after the last, and commas nowhere else.
WellSeparated(sql) ==
    /\ \A k \in 1..Len(sql) :
         sql[k].tok = "line" =>
             IF \E j \in (k + 1)..Len(sql) : sql[j].tok = "line"
             THEN k < Len(sql) /\ sql[k + 1] = CommaTok
             ELSE k = Len(sql)
    /\ \A k \in 1..Len(sql) : sql[k] = CommaTok => k > 1 /\ sql[k - 1].tok = "line"

LlmElementsUsed ==
    /\ llm.query = "ok"
    /\ llm.response.object = "json"
    /\ ret.warning = "none"

\* C12: for every list of facts, and likewise of dimensions, that
\* generate_semantic_elements takes from the LLM, lists with equal entries
\* included, the SQL it returns has a comma after every entry except the last
\* and none after the last.
C12_CommaSeparated ==
    (pc = "generate_semantic_elements" /\ LlmElementsUsed) =>
        /\ WellSeparated(ret.value.facts_sql)
        /\ WellSeparated(ret.value.dimensions_sql)

\* What holds of the commas: lists without equal entries are well separated.
C12_DistinctEntriesSeparated ==
    ( /\ pc = "generate_semantic_elements"
      /\ LlmElementsUsed
      /\ "facts" \in llm.response.data.keys
      /\ \A i, j \in 1..Len(llm.response.data.facts) :
             i # j => llm.response.data.facts[i] # llm.response.data.facts[j] ) =>
        WellSeparated(ret.value.facts_sql)

ReferencedUnderTable1(elements, sql) ==
    \A k \in 1..Len(elements) :
        Len(split_dot(elements[k].table_column)) # 2 =>
            \E j \in 1..Len(sql) :
                /\ sql[j].full_reference =
                       Qualified(table1_name, elements[k].table_column)
                /\ sql[j].name = elements[k].name

\* C14: a fact or dimension of the LLM's JSON object whose table_column is not
\* of the two-part form TABLE.COLUMN is referenced as
\* <table1_name>.<table_column> in the facts/dimensions SQL that
\* generate_semantic_elements_with_schema returns.
C14_BareColumnUnderTable1 ==
    ( /\ pc = "generate_semantic_elements_with_schema"
      /\ llm.query = "ok"
      /\ llm.response.object = "json"
      /\ WellFormedElements(ElementsOf(llm.response.data, "facts"))
      /\ WellFormedElements(ElementsOf(llm.response.data, "dimensions")) ) =>
        /\ ReferencedUnderTable1(ElementsOf(llm.response.data, "facts"),
                                 ret.value.facts_sql)
        /\ ReferencedUnderTable1(ElementsOf(llm.response.data, "dimensions"),
                                 ret.value.dimensions_sql)

-----------------------------------------------------------------------------
(* Claims about the fallback generators (checked under SpecFallback).      *)

\* The entry lines of an SQL text.
LinesOf(sql) ==
    LET F[k \in 0..Len(sql)] ==
            IF k = 0 THEN <<>>
            ELSE IF sql[k].tok = "line" THEN Append(F[k - 1], sql[k].line)
            ELSE F[k - 1]
    IN  F[Len(sql)]

DimensionColumns(schema) ==
    { k \in 1..Len(schema) : schema[k].type \in DimensionTypes }

OnEntityId(line) ==
    LET parts == split_dot(line.full_reference)
    IN  parts[Len(parts)] = <<"ENTITY_ID">>

DimensionsLimited(lines) ==
    /\ Len(lines) >= 1
    /\ Len(lines) <= 3
    /\ IF DimensionColumns(table1_schema) = {} /\ DimensionColumns(table2_schema) = {}
       THEN /\ Len(lines) = 1
            /\ lines[1].full_reference = Qualified(table1_name, <<"ENTITY_ID">>)
       ELSE \A k \in 1..Len(lines) : ~OnEntityId(lines[k])

-----------------------------------------------------------------------------
(* Claims about the branding wizard (checked under SpecWizard).             *)

Pages == {"form", "select_brand", "final"}

\* The step is a submit of the form with name, company URL, team members and
\* main vertical all given.
SubmittedAllRequired ==
    /\ last_event'.event = "submit"
    /\ last_event'.name # ""
    /\ last_event'.company_url # ""
    /\ last_event'.team_members # ""
    /\ last_event'.main_vertical # ""

PageEdge ==
    \/ /\ session_state.page = "form"
       /\ session_state'.page = "select_brand"
       /\ SubmittedAllRequired
    \/ /\ session_state.page = "select_brand"
       /\ session_state'.page = "final"
       /\ last_event'.event = "finalize"
    \/ /\ session_state.page = "final"
       /\ session_state'.page = "form"
       /\ last_event'.event = "start over"

\* C16: in both wizard variants session_state.page starts as 'form', is always
\* one of 'form', 'select_brand' and 'final', and changes only from form to
\* select_brand by a submit with all required fields, from select_brand to
\* final by Finalize Selection, and from final to form by Start Over.
C16_PageTransitions ==
    /\ session_state.page = "form"
    /\ [](session_state.page \in Pages)
    /\ [][session_state'.page # session_state.page => PageEdge]_vars

\* Start Over has brought a session that went through all three pages back
\* to the form.
C16_Witness ==
    /\ session_state.page = "form"
    /\ last_event.event = "start over"
    /\ variant \in {"hosted", "self hosted"}

====
